---- MODULE Spec2Model ----
(***************************************************************************)
(* In-memory publish/subscribe broker (package pubsub) and the WebSocket   *)
(* session layer that drives it (package websocket).                       *)
(*                                                                         *)
(* Objects are numbered as they are allocated: topic objects 1,2,...,      *)
(* subscriber objects 1,2,..., message objects 1,2,...; 0 is the nil       *)
(* pointer / the absent map entry.  A registry call that releases one lock *)
(* and takes another is split at that point into separate actions, each    *)
(* goroutine spawned by Publish or Subscribe is its own action.  A panic   *)
(* in a goroutine the program started with "go" ends the process; a panic  *)
(* in a request handler unwinds that handler, running its deferred calls,  *)
(* and is recovered by the HTTP server (gin.Default).                      *)
(***************************************************************************)
EXTENDS Integers, Sequences, FiniteSets, TLC

\* ---------------------------------------------------------------- bounds
\* Config values explored (DefaultConfig has 100 for both; the queue of the fan-out
\* behaviours is smaller than the ring so that it fills up)
RingBufferSize == 2
ChannelBufferSize == 1
\* objects allocated in one behaviour: messages published, subscribers and topics created
MaxMsgs == 2
MaxSubs == 2
MaxTopics == 1
ReplayMaxMsgs == 3
LifeMaxTopics == 2
LifeMaxSubs == 2
\* the ring alone: capacities explored, messages added
RingMaxSize == 3
RingMaxAdds == 5
\* concurrent publishers: messages published
StampMaxMsgs == 3
\* the frames of a session: topics and subscribers created, messages published
\* two principals on one topic: subscribers created
UnsubMaxSubs == 3
WireMaxTopics == 2
\* the REST endpoint and one session: topics and subscribers created, messages published
RestMaxTopics == 2
RestMaxSubs == 2
RestMaxMsgs == 2
\* start-up: the sizes of the configurations passed to InitService
BootMaxSize == 2
BootMaxTopics == 3
\* stopping: subscribers allocated, messages published
StopMaxSubs == 1
StopMaxMsgs == 2
\* reports: the ring's capacity, topic objects, subscribers allocated, messages published
StatsRingSize == 1
StatsMaxTopics == 3
StatsMaxSubs == 2
StatsMaxMsgs == 2
\* broken transport: subscribers allocated, messages published
WriteMaxSubs == 1
WriteMaxMsgs == 2
\* writers: subscribers allocated, messages published
WritersMaxSubs == 1
WritersMaxMsgs == 2
\* shared messages: topic objects, subscribers allocated, message objects, appends per ring
ShareMaxTopics == 2
ShareMaxSubs == 1
ShareMaxMsgs == 2
ShareMaxAdds == 2
\* draining: the channel's capacity, topic objects, subscribers allocated, messages published
DrainChannelSize == 2
DrainMaxTopics == 2
DrainMaxSubs == 2
DrainMaxMsgs == 3
WireMaxSubs == 2
WireMaxMsgs == 1

\* DefaultConfig
DefaultRingBufferSize == 100
DefaultChannelBufferSize == 100

TopicNames == {"A", "B"}
Clients == {"c1", "c2"}
Sessions == {"s1", "s2"}

Nil == 0

\* ------------------------------------------------------------ RingBuffer
NewRingBuffer(size) ==
    [buffer |-> [i \in 0..(size - 1) |-> Nil], size |-> size,
     head |-> 0, tail |-> 0, count |-> 0]

\* an Add whose tail is not wrapped around
AddNoWrap(rb, msg) ==
    IF rb.count < rb.size
    THEN [rb EXCEPT !.buffer = [rb.buffer EXCEPT ![rb.tail] = msg], !.tail = @ + 1, !.count = @ + 1]
    ELSE [rb EXCEPT !.buffer = [rb.buffer EXCEPT ![rb.tail % rb.size] = msg], !.tail = @ + 1,
                    !.head = (@ + 1) % rb.size]

\* an Add that, once the ring is full, drops the new message instead of the oldest
AddDropNewest(rb, msg) ==
    IF rb.count < rb.size
    THEN [rb EXCEPT !.buffer = [rb.buffer EXCEPT ![rb.tail] = msg],
                    !.tail = (@ + 1) % rb.size, !.count = @ + 1]
    ELSE rb

\* RingBuffer.Add: write at the tail, advance it, and advance the head once full
Add(rb, msg) ==
    LET buf == [rb.buffer EXCEPT ![rb.tail] = msg]
        t   == (rb.tail + 1) % rb.size
    IN IF rb.count < rb.size
       THEN [rb EXCEPT !.buffer = buf, !.tail = t, !.count = @ + 1]
       ELSE [rb EXCEPT !.buffer = buf, !.tail = t, !.head = (@ + 1) % rb.size]

\* the collected slots left newest first
NewestFirst(s) == s

\* the reversal that ends GetLastN
Reverse(s) == [i \in 1..Len(s) |-> s[Len(s) + 1 - i]]

RECURSIVE Collect(_, _, _, _)
\* the loop of GetLastN: slots start, start-1, ... (n of them), nil slots skipped
Collect(rb, start, i, n) ==
    IF i >= n THEN <<>>
    ELSE LET idx == (start - i + rb.size) % rb.size
         IN (IF rb.buffer[idx] # Nil THEN <<rb.buffer[idx]>> ELSE <<>>)
            \o Collect(rb, start, i + 1, n)

\* a GetLastN that does not clamp n to the count
GetLastNUnclamped(rb, n) ==
    IF n <= 0 \/ rb.count = 0 THEN <<>>
    ELSE Reverse(Collect(rb, (rb.tail - 1 + rb.size) % rb.size, 0, n))

GetLastN(rb, n) ==
    IF n <= 0 \/ rb.count = 0 THEN <<>>
    ELSE LET m     == IF n > rb.count THEN rb.count ELSE n
             start == (rb.tail - 1 + rb.size) % rb.size
         IN Reverse(Collect(rb, start, 0, m))

RECURSIVE Snapshot(_, _, _)
\* the loop of GetMessages: slots first, first+1, ... (count of them from slot i on), nil
\* slots skipped
Snapshot(rb, first, i) ==
    IF i >= rb.count THEN <<>>
    ELSE LET idx == (first + i) % rb.size
         IN (IF rb.buffer[idx] # Nil THEN <<rb.buffer[idx]>> ELSE <<>>)
            \o Snapshot(rb, first, i + 1)

\* a GetMessages that reads the slots from slot 0 on
GetMessagesFromZero(rb) ==
    IF rb.count = 0 THEN <<>> ELSE Snapshot(rb, 0, 0)

\* RingBuffer.GetMessages: the count messages from the head on
GetMessages(rb) ==
    IF rb.count = 0 THEN <<>> ELSE Snapshot(rb, rb.head, 0)

\* ----------------------------------------------------------------- state
VARIABLES
    got,        \* the result of the last call made directly on the package: a read of a
                \*   ring (the n asked for, the list), InitService or GetService (the call,
                \*   the configuration passed, the service returned)
    rest,       \* the last response of the REST topic endpoint, where a behaviour looks
                \*   at it: the call, the topic name, the registry's error, the HTTP status
    instance,   \* the package variable instance: Nil until InitService has run
    lk,         \* the mutexes of the service, its topics and their rings, and where each
                \*   goroutine calling the service is in the lock operations of its call
    config,     \* service.config: RingBufferSize, ChannelBufferSize
    topics,     \* service.topics: topic name -> topic object (Nil if absent)
    tName,      \* Topic.Name of each topic object
    tSubs,      \* Topic.Subscribers of each topic object: clientID -> subscriber
    tRing,      \* Topic.Messages of each topic object
    subs,       \* Subscriber objects: ClientID, TopicName, MessageChan, closed
    msgs,       \* Message objects: ID, and the Topic and Timestamp stamped by Publish
    shutdown,   \* service.shutdown has been closed
    stop,       \* the call of service.Stop: where it is, and whether its done channel is closed
    fanout,     \* goroutines spawned by Publish, not yet run: <<message, subscriber>>
    replay,     \* goroutines spawned by Subscribe: subscriber -> messages still to send
    panicked,   \* the panic the process died of ("" while it runs)
    clients,    \* WebSocketHandler.clients: clientID -> session
    hShutdown,  \* WebSocketHandler.shutdown has been closed
    sess,       \* Client objects (sessions): state, ID, Subscriptions, done, and the
                \*   panic its handler goroutine was recovered from ("" if none)
    op,         \* the request each session's read loop is serving
    drain,      \* messageSender of each session: running, subscriptions left in this pass
    hist,       \* history: per subscriber, every message ever enqueued into its channel
                \*          (with the goroutine kind that sent it), the session that
                \*          subscribed, and the messages appended to the ring before it
    added,      \* history: per topic object, every message appended to its ring, in order
    before      \* history: per message, the messages whose Publish had returned when
                \*          its own Publish began

vars == <<got, rest, instance, lk, config, topics, tName, tSubs, tRing, subs, msgs, shutdown, stop, fanout, replay, panicked,
          clients, hShutdown, sess, op, drain, hist, added, before>>

registry == <<got, rest, instance, lk, config, topics, tName, tSubs, tRing, subs, msgs, shutdown, stop, fanout, replay>>
sessionLayer == <<clients, hShutdown, sess, op, drain>>
history == <<hist, added, before>>

Idle == [kind |-> "idle"]
NoSubscriptions == [t \in TopicNames |-> Nil]

\* ------------------------------------------------------------ mutexes
\* the goroutines that call the service, the topic objects they call it for
Goroutines == {"g1", "g2"}
LockTopics == 2

\* s.mu, topic.mu and topic.Messages.mu (the ring's own mutex)
ServiceMu == <<"service", 0>>
TopicMu(t) == <<"topic", t>>
RingMu(t) == <<"ring", t>>
Mutexes == {ServiceMu} \cup {TopicMu(t) : t \in 1..LockTopics} \cup {RingMu(t) : t \in 1..LockTopics}

\* a sync.RWMutex: the goroutine holding it for writing (w), the goroutines holding it
\* for reading (r), the goroutines that have called Lock and wait for the writers' turn
\* (pending), the writer whose turn it is and who waits for the readers to leave or
\* holds the mutex (turn), the readers that wait for that writer's Unlock (blocked)
Unlocked == [w |-> "", r |-> {}, pending |-> {}, turn |-> "", blocked |-> {}]
NotCalling == [op |-> "idle", t |-> 0, at |-> 0, waiting |-> FALSE]
NoLocks == [mu |-> [m \in Mutexes |-> Unlocked], pc |-> [g \in Goroutines |-> NotCalling]]

\* topic.mu.RLock(); len(topic.Subscribers); topic.mu.RUnlock()
CountSubscribers(t) == <<<<"RLock", TopicMu(t)>>, <<"RUnlock", TopicMu(t)>>>>

\* topic.mu.RLock(); len(topic.Subscribers); topic.Messages.Count(); topic.mu.RUnlock()
CountBoth(t) ==
    <<<<"RLock", TopicMu(t)>>, <<"RLock", RingMu(t)>>, <<"RUnlock", RingMu(t)>>, <<"RUnlock", TopicMu(t)>>>>

RECURSIVE EachTopic(_, _)
\* for _, topic := range s.topics: the lock operations of the loop body, topic by topic
\* (stats: the body of GetStats, which counts the messages too)
EachTopic(stats, t) ==
    IF t > LockTopics THEN <<>>
    ELSE (IF stats THEN CountBoth(t) ELSE CountSubscribers(t)) \o EachTopic(stats, t + 1)

\* a DeleteTopic that takes the topic's mutex before the service's
DeleteTopicFirst(t) ==
    <<<<"Lock", TopicMu(t)>>, <<"Lock", ServiceMu>>, <<"Unlock", ServiceMu>>, <<"Unlock", TopicMu(t)>>>>

\* service.DeleteTopic: s.mu.Lock, topic.mu.Lock ... topic.mu.Unlock, deferred s.mu.Unlock
DeleteTopicLocks(t) ==
    <<<<"Lock", ServiceMu>>, <<"Lock", TopicMu(t)>>, <<"Unlock", TopicMu(t)>>, <<"Unlock", ServiceMu>>>>

\* the lock operations of a call of the service for topic t, in the order of the code
\* (a deferred unlock comes last)
LockOps(call, t) ==
    CASE call = "CreateTopic" -> <<<<"Lock", ServiceMu>>, <<"Unlock", ServiceMu>>>>
      [] call = "DeleteTopic" -> DeleteTopicLocks(t)
      [] call = "GetTopic" -> <<<<"RLock", ServiceMu>>, <<"RUnlock", ServiceMu>>>>
      [] call = "ListTopics" ->
            <<<<"RLock", ServiceMu>>>> \o EachTopic(FALSE, 1) \o <<<<"RUnlock", ServiceMu>>>>
      [] call = "GetHealth" ->
            <<<<"RLock", ServiceMu>>>> \o EachTopic(FALSE, 1) \o <<<<"RUnlock", ServiceMu>>>>
      [] call = "GetStats" ->
            <<<<"RLock", ServiceMu>>>> \o EachTopic(TRUE, 1) \o <<<<"RUnlock", ServiceMu>>>>
      [] call = "Subscribe" ->       \* with lastN > 0: GetLastN under topic.mu
            <<<<"RLock", ServiceMu>>, <<"RUnlock", ServiceMu>>, <<"Lock", TopicMu(t)>>,
              <<"RLock", RingMu(t)>>, <<"RUnlock", RingMu(t)>>, <<"Unlock", TopicMu(t)>>>>
      [] call = "Unsubscribe" ->
            <<<<"RLock", ServiceMu>>, <<"RUnlock", ServiceMu>>, <<"Lock", TopicMu(t)>>,
              <<"Unlock", TopicMu(t)>>>>
      [] call = "Publish" ->
            <<<<"RLock", ServiceMu>>, <<"RUnlock", ServiceMu>>, <<"Lock", RingMu(t)>>,
              <<"Unlock", RingMu(t)>>, <<"RLock", TopicMu(t)>>, <<"RUnlock", TopicMu(t)>>>>

ServiceCalls ==
    {"CreateTopic", "DeleteTopic", "GetTopic", "ListTopics", "GetHealth", "GetStats",
     "Subscribe", "Unsubscribe", "Publish"}

\* goroutine g calls the service
Call(g, call, t) ==
    /\ lk.pc[g].op = "idle"
    /\ lk' = [lk EXCEPT !.pc[g] = [op |-> call, t |-> t, at |-> 1, waiting |-> FALSE]]
    /\ UNCHANGED <<got, rest, instance, config, topics, tName, tSubs, tRing, subs, msgs, shutdown, stop, fanout, replay, panicked>>
    /\ UNCHANGED <<sessionLayer, history>>

\* the next lock operation of goroutine g.  Lock queues for the writers' turn, takes the
\* turn when it is free (from then on RLock blocks) and holds the mutex once the readers
\* have left; RLock succeeds at once when no writer has the turn, else waits to be let
\* in by that writer's Unlock, which lets every blocked RLock return before it passes
\* the turn on; after the last operation the call returns
LockStep(g) ==
    /\ lk.pc[g].op # "idle"
    /\ LET p == lk.pc[g]
           ops == LockOps(p.op, p.t)
           kind == ops[p.at][1]
           m == ops[p.at][2]
           next == IF p.at = Len(ops) THEN NotCalling ELSE [p EXCEPT !.at = @ + 1, !.waiting = FALSE]
       IN \/ /\ kind = "Lock" /\ ~p.waiting
             /\ lk' = [lk EXCEPT !.mu[m].pending = @ \cup {g}, !.pc[g].waiting = TRUE]
          \/ /\ kind = "Lock" /\ p.waiting /\ g \in lk.mu[m].pending
             /\ lk.mu[m].turn = ""
             /\ lk' = [lk EXCEPT !.mu[m].turn = g, !.mu[m].pending = @ \ {g}]
          \/ /\ kind = "Lock" /\ p.waiting /\ lk.mu[m].turn = g
             /\ lk.mu[m].r = {}
             /\ lk' = [lk EXCEPT !.mu[m].w = g, !.pc[g] = next]
          \/ /\ kind = "RLock" /\ ~p.waiting
             /\ IF lk.mu[m].turn = ""
                THEN lk' = [lk EXCEPT !.mu[m].r = @ \cup {g}, !.pc[g] = next]
                ELSE lk' = [lk EXCEPT !.mu[m].blocked = @ \cup {g}, !.pc[g].waiting = TRUE]
          \/ /\ kind = "Unlock"
             /\ lk' = [lk EXCEPT !.mu[m].w = "", !.mu[m].turn = "", !.mu[m].r = lk.mu[m].blocked,
                                 !.mu[m].blocked = {},
                                 !.pc = [h \in Goroutines |->
                                           IF h = g THEN next
                                           ELSE IF h \in lk.mu[m].blocked
                                           THEN [@[h] EXCEPT !.at = @ + 1, !.waiting = FALSE]
                                           ELSE @[h]]]
          \/ /\ kind = "RUnlock"
             /\ lk' = [lk EXCEPT !.mu[m].r = @ \ {g}, !.pc[g] = next]
    /\ UNCHANGED <<got, rest, instance, config, topics, tName, tSubs, tRing, subs, msgs, shutdown, stop, fanout, replay, panicked>>
    /\ UNCHANGED <<sessionLayer, history>>

\* service.Stop has not been called
NotStopped == [pc |-> "idle", done |-> FALSE, how |-> ""]

\* the state after InitService(cfg), service.Start and NewService of the WebSocket layer
InitWith(cfg) ==
    /\ got = [n |-> 0, out |-> <<>>]
    /\ rest = [call |-> "", name |-> "", err |-> "", status |-> ""]
    /\ instance = 1
    /\ lk = NoLocks
    /\ config = cfg
    /\ topics = [t \in TopicNames |-> Nil]
    /\ tName = <<>>
    /\ tSubs = <<>>
    /\ tRing = <<>>
    /\ subs = <<>>
    /\ msgs = <<>>
    /\ shutdown = FALSE
    /\ stop = NotStopped
    /\ fanout = {}
    /\ replay = <<>>
    /\ panicked = ""
    /\ clients = [c \in Clients |-> ""]
    /\ hShutdown = FALSE
    /\ sess = [s \in Sessions |->
                 [state |-> "new", ID |-> "", Subscriptions |-> NoSubscriptions,
                  done |-> FALSE, connClosed |-> FALSE, wire |-> "ok", writers |-> {}, todo |-> {}, panic |-> ""]]
    /\ op = [s \in Sessions |-> Idle]
    /\ drain = [s \in Sessions |-> [running |-> FALSE, snap |-> {}]]
    /\ hist = <<>>
    /\ added = <<>>
    /\ before = <<>>

Running == panicked = ""

\* the subscriber objects of every topic object
AttachedAnywhere(t) == {tSubs[u][c] : u \in DOMAIN tSubs, c \in Clients} \ {Nil}

\* the subscriber objects in a topic object's Subscribers map
Attached(t) == {tSubs[t][c] : c \in Clients} \ {Nil}

\* the subscriber objects in a session's Subscriptions map
Held(s) == {sess[s].Subscriptions[t] : t \in TopicNames} \ {Nil}

\* ---------------------------------------------------- the singleton
\* a once that has never run
NeverDone == FALSE

\* sync.Once: the function passed to once.Do has run
Done == instance # Nil

\* the *Config argument of InitService: nil, or a configuration
NilConfig == [nil |-> TRUE, RingBufferSize |-> 0, ChannelBufferSize |-> 0]
ConfigWith(ring, channel) == [nil |-> FALSE, RingBufferSize |-> ring, ChannelBufferSize |-> channel]

\* DefaultConfig()
DefaultConfig == [RingBufferSize |-> DefaultRingBufferSize, ChannelBufferSize |-> DefaultChannelBufferSize]

\* InitService(cfg): once.Do creates the service with cfg (DefaultConfig() for nil) and an
\* empty topic map; every call returns the package's instance
InitService(cfg) ==
    /\ Running
    /\ IF Done
       THEN /\ got' = [call |-> "InitService", cfg |-> cfg, ret |-> instance]
            /\ UNCHANGED <<rest, instance, lk, config, topics, tName, tSubs, tRing, subs, msgs, shutdown, stop, fanout, replay, panicked>>
            /\ UNCHANGED <<sessionLayer, history>>
       ELSE /\ instance' = 1
            /\ config' = IF cfg.nil THEN DefaultConfig
                          ELSE [RingBufferSize |-> cfg.RingBufferSize,
                                ChannelBufferSize |-> cfg.ChannelBufferSize]
            /\ topics' = [t \in TopicNames |-> Nil]
            /\ tName' = <<>> /\ tSubs' = <<>> /\ tRing' = <<>> /\ added' = <<>>
            /\ shutdown' = FALSE
            /\ got' = [call |-> "InitService", cfg |-> cfg, ret |-> 1]
            /\ UNCHANGED <<rest, lk, subs, msgs, stop, fanout, replay, panicked>>
            /\ UNCHANGED <<sessionLayer, hist, before>>

\* GetService(): panics while the instance is nil (NewService of the WebSocket layer and
\* of the topic endpoint call it when the routes are registered), else returns it
GetService ==
    /\ Running
    /\ IF instance = Nil
       THEN /\ panicked' = "PubSub service not initialized. Call InitService() first."
            /\ UNCHANGED <<got, rest, instance, lk, config, topics, tName, tSubs, tRing, subs, msgs, shutdown, stop, fanout, replay>>
            /\ UNCHANGED <<sessionLayer, history>>
       ELSE /\ got' = [call |-> "GetService", cfg |-> NilConfig, ret |-> instance]
            /\ UNCHANGED <<rest, instance, lk, config, topics, tName, tSubs, tRing, subs, msgs, shutdown, stop, fanout, replay, panicked>>
            /\ UNCHANGED <<sessionLayer, history>>

\* ---------------------------------------------------- registry: topics
\* a registration that puts the name on the topic object it had before, if it had one
RegisterAgain(name) ==
    IF \E t \in DOMAIN tName : tName[t] = name
    THEN /\ topics' = [topics EXCEPT ![name] = CHOOSE t \in DOMAIN tName : tName[t] = name]
         /\ UNCHANGED <<tName, tSubs, tRing, added>>
    ELSE /\ topics' = [topics EXCEPT ![name] = Len(tSubs) + 1]
         /\ tName' = Append(tName, name)
         /\ tSubs' = Append(tSubs, [c \in Clients |-> Nil])
         /\ tRing' = Append(tRing, NewRingBuffer(config.RingBufferSize))
         /\ added' = Append(added, <<>>)

\* service.CreateTopic, name absent: a new Topic with no subscribers and an empty ring
\* is put into the map
Register(name) ==
    /\ topics' = [topics EXCEPT ![name] = Len(tSubs) + 1]
    /\ tName' = Append(tName, name)
    /\ tSubs' = Append(tSubs, [c \in Clients |-> Nil])
    /\ tRing' = Append(tRing, NewRingBuffer(config.RingBufferSize))
    /\ added' = Append(added, <<>>)

\* service.CreateTopic (called by the REST endpoint POST /topics)
CreateTopic(name) ==
    /\ Running
    /\ IF topics[name] # Nil
       THEN UNCHANGED vars                        \* "topic %s already exists"
       ELSE /\ Register(name)
            /\ UNCHANGED <<got, rest, instance, lk, config, subs, msgs, shutdown, stop, fanout, replay, panicked>>
            /\ UNCHANGED <<sessionLayer, hist, before>>

\* endpoint.CreateTopic (POST /topics) with the response it writes: 400 without a name,
\* 409 for "topic %s already exists", 201 otherwise
EndpointCreateTopic(name) ==
    /\ Running
    /\ IF name = ""
       THEN /\ rest' = [call |-> "CreateTopic", name |-> name, err |-> "", status |-> "BadRequest"]
            /\ UNCHANGED <<got, instance, lk, config, topics, tName, tSubs, tRing, subs, msgs, shutdown, stop, fanout, replay, panicked>>
            /\ UNCHANGED <<sessionLayer, history>>
       ELSE IF topics[name] # Nil
       THEN /\ rest' = [call |-> "CreateTopic", name |-> name, err |-> "TOPIC_EXISTS", status |-> "Conflict"]
            /\ UNCHANGED <<got, instance, lk, config, topics, tName, tSubs, tRing, subs, msgs, shutdown, stop, fanout, replay, panicked>>
            /\ UNCHANGED <<sessionLayer, history>>
       ELSE /\ Register(name)
            /\ rest' = [call |-> "CreateTopic", name |-> name, err |-> "", status |-> "Created"]
            /\ UNCHANGED <<got, instance, lk, config, subs, msgs, shutdown, stop, fanout, replay, panicked>>
            /\ UNCHANGED <<sessionLayer, hist, before>>

\* service.ListTopics: every topic of the map with the size of its Subscribers map
ListTopics ==
    {[Name |-> name, Subscribers |-> Cardinality({c \in Clients : tSubs[topics[name]][c] # Nil})] :
        name \in {n \in TopicNames : topics[n] # Nil}}

\* a count that is the capacity of the ring
Capacity(rb) == rb.size

\* RingBuffer.Count
Count(rb) == rb.count

\* service.GetStats: for every topic of the map, the count of its ring and the size of its
\* Subscribers map
GetStats ==
    [name \in {n \in TopicNames : topics[n] # Nil} |->
        [Messages |-> Count(tRing[topics[name]]),
         Subscribers |-> Cardinality({c \in Clients : tSubs[topics[name]][c] # Nil})]]

RECURSIVE TotalSubscribers(_)
\* the loop of GetHealth: totalSubscribers += len(topic.Subscribers)
TotalSubscribers(names) ==
    IF names = {} THEN 0
    ELSE LET name == CHOOSE n \in names : TRUE
         IN Cardinality({c \in Clients : tSubs[topics[name]][c] # Nil})
            + TotalSubscribers(names \ {name})

\* service.GetHealth, without the uptime: the size of the topic map and the sizes of the
\* Subscribers maps added up
GetHealth ==
    [Topics |-> Cardinality({n \in TopicNames : topics[n] # Nil}),
     Subscribers |-> TotalSubscribers({n \in TopicNames : topics[n] # Nil})]

\* no channel is closed
CloseNone(Q) == subs

\* close(ch) for every channel of Q
CloseAll(Q) == [i \in DOMAIN subs |-> IF i \in Q THEN [subs[i] EXCEPT !.closed = TRUE] ELSE subs[i]]

\* service.DeleteTopic (DELETE /topics/:name): closes every subscriber's channel, then
\* removes the topic from the map.  The Subscribers map of the topic object is left as is.
DeleteTopic(name) ==
    /\ Running
    /\ IF topics[name] = Nil
       THEN UNCHANGED vars                        \* "topic %s not found"
       ELSE LET t == topics[name]
                already == {i \in Attached(t) : subs[i].closed}
            IN IF already # {}
               THEN \* close of a closed channel, after closing some of the open ones
                    \* (not taken: the subscribers attached to a topic of the map are open)
                    \E Q \in SUBSET (Attached(t) \ already) :
                        /\ subs' = CloseAll(Q)
                        /\ panicked' = "close of closed channel: MessageChan"
                        /\ UNCHANGED <<got, rest, instance, lk, config, topics, tName, tSubs, tRing, msgs, shutdown, stop, fanout, replay>>
                        /\ UNCHANGED <<sessionLayer, history>>
               ELSE /\ subs' = CloseAll(Attached(t))
                    /\ topics' = [topics EXCEPT ![name] = Nil]
                    /\ UNCHANGED <<got, rest, instance, lk, config, tName, tSubs, tRing, msgs, shutdown, stop, fanout, replay, panicked>>
                    /\ UNCHANGED <<sessionLayer, history>>

\* endpoint.DeleteTopic (DELETE /topics/:name) with the response it writes: 404 for
\* "topic %s not found", 200 otherwise (the subscribers attached to a topic of the map
\* are open, see DeleteTopic)
EndpointDeleteTopic(name) ==
    /\ Running
    /\ IF topics[name] = Nil
       THEN /\ rest' = [call |-> "DeleteTopic", name |-> name, err |-> "TOPIC_NOT_FOUND", status |-> "NotFound"]
            /\ UNCHANGED <<got, instance, lk, config, topics, tName, tSubs, tRing, subs, msgs, shutdown, stop, fanout, replay, panicked>>
            /\ UNCHANGED <<sessionLayer, history>>
       ELSE /\ \A i \in Attached(topics[name]) : ~subs[i].closed
            /\ subs' = CloseAll(Attached(topics[name]))
            /\ topics' = [topics EXCEPT ![name] = Nil]
            /\ rest' = [call |-> "DeleteTopic", name |-> name, err |-> "", status |-> "OK"]
            /\ UNCHANGED <<got, instance, lk, config, tName, tSubs, tRing, msgs, shutdown, stop, fanout, replay, panicked>>
            /\ UNCHANGED <<sessionLayer, history>>

\* service.Stop, called once by main: close(s.shutdown), start the goroutine that waits
\* for s.wg, and go to the select
Stop ==
    /\ Running
    /\ ~shutdown
    /\ shutdown' = TRUE
    /\ stop' = [pc |-> "select", done |-> FALSE, how |-> ""]
    /\ UNCHANGED <<got, rest, instance, lk, config, topics, tName, tSubs, tRing, subs, msgs, fanout, replay, panicked>>
    /\ UNCHANGED <<sessionLayer, history>>

\* the goroutine of Stop: s.wg.Wait() returns at once, nothing is ever added to s.wg
\* (neither by Publish nor by Subscribe); then close(done)
StopWait ==
    /\ Running
    /\ stop.pc # "idle" /\ ~stop.done
    /\ stop' = [stop EXCEPT !.done = TRUE]
    /\ UNCHANGED <<got, rest, instance, lk, config, topics, tName, tSubs, tRing, subs, msgs, shutdown, fanout, replay, panicked>>
    /\ UNCHANGED <<sessionLayer, history>>

\* a Stop that returns only when no fan-out and no replay task is left
StopReturnWhenIdle ==
    /\ Running
    /\ stop.pc = "select"
    /\ fanout = {} /\ \A i \in DOMAIN replay : replay[i] = <<>>
    /\ stop' = [stop EXCEPT !.pc = "returned", !.how = "graceful"]
    /\ UNCHANGED <<got, rest, instance, lk, config, topics, tName, tSubs, tRing, subs, msgs, shutdown, fanout, replay, panicked>>
    /\ UNCHANGED <<sessionLayer, history>>

\* the select of Stop: done is closed, or the timer of GracefulShutdownTimeout has fired;
\* either way Stop returns nil
StopReturn ==
    /\ Running
    /\ stop.pc = "select"
    /\ \E how \in (IF stop.done THEN {"graceful"} ELSE {}) \cup {"timeout"} :
          stop' = [stop EXCEPT !.pc = "returned", !.how = how]
    /\ UNCHANGED <<got, rest, instance, lk, config, topics, tName, tSubs, tRing, subs, msgs, shutdown, fanout, replay, panicked>>
    /\ UNCHANGED <<sessionLayer, history>>

\* ------------------------------------------------ session: the read loop
\* client.Conn.WriteJSON returns an error: the connection was closed, or the transport
\* is broken
WriteFails(s) == sess[s].connClosed \/ sess[s].wire # "ok"

\* the Client after a WriteJSON of task ("reply": handleMessage, "event": messageSender):
\* the task has left WriteJSON, and a write on a broken transport has returned its error
Written(c, task) ==
    [c EXCEPT !.wire = IF @ = "broken" THEN "failed" ELSE @, !.writers = @ \ {task}]

\* client.Conn.WriteJSON is entered by task while the tasks c.writers are inside it.  No
\* lock of the session is held around the call (client.mu guards Subscriptions only), so
\* the task enters whoever is inside; two writers on one connection are a data race, in
\* which the connection either takes both writes or panics
Enters(c, task) == IF c.writers = {} THEN {"enter"} ELSE {"enter", "panic"}

CanRead(s) ==
    /\ Running
    /\ sess[s].state = "open"
    /\ op[s] = Idle
    /\ ~sess[s].connClosed

\* a lookup in a map from which DeleteTopic removes nothing: the last topic object
\* that went by the name
LookupStale(name) ==
    IF \E t \in DOMAIN tName : tName[t] = name
    THEN CHOOSE t \in DOMAIN tName : tName[t] = name /\ \A u \in DOMAIN tName : tName[u] = name => u <= t
    ELSE Nil

\* "topic, exists := s.topics[topicName]" under s.mu.RLock: the topic object, Nil if the
\* map has no entry
Lookup(name) == topics[name]

\* *pubsub.Message of a frame without a "message" member
NilMessage == [nil |-> TRUE, ID |-> ""]

\* *pubsub.Message decoded from the "message" member of a frame
MessageWith(id) == [nil |-> FALSE, ID |-> id]

\* the WSRequest a well-formed JSON frame decodes to
WSRequest(type, topic, message, lastN, rid) ==
    [Type |-> type, Topic |-> topic, Message |-> message, LastN |-> lastN, RequestID |-> rid]

\* complete frames that carry no request_id
SubscribeFrame(name, lastN) == WSRequest("subscribe", name, NilMessage, lastN, "")
UnsubscribeFrame(name) == WSRequest("unsubscribe", name, NilMessage, 0, "")
PublishFrame(name) == WSRequest("publish", name, MessageWith("m"), 0, "")

\* a reply is ready to be written: kind, topic name, error ("" if none), subscriber
\* handle, and the request it answers
Reply(kind, name, err, sub, req) ==
    [kind |-> kind, phase |-> "reply", name |-> name, err |-> err, sub |-> sub, req |-> req]

\* no Publish call is between its lookup and its return
NoPublishRunning == \A s \in Sessions : ~(op[s].kind = "publish" /\ op[s].phase # "reply")

\* handleSubscribe up to the topic lookup of service.Subscribe
HandleSubscribe(s, req) ==
    /\ CanRead(s)
    /\ op' = [op EXCEPT ![s] =
                IF req.Topic = ""
                THEN Reply("subscribe", "", "BAD_REQUEST", Nil, req)
                ELSE IF Lookup(req.Topic) = Nil
                THEN Reply("subscribe", req.Topic, "TOPIC_NOT_FOUND", Nil, req)
                ELSE [kind |-> "subscribe", phase |-> "locked", name |-> req.Topic,
                      topic |-> Lookup(req.Topic), lastN |-> req.LastN, req |-> req]]
    /\ UNCHANGED <<registry, panicked, clients, hShutdown, sess, drain, history>>

\* the subscription test left out
NeverSubscribed(t, c) == FALSE

\* "if _, exists := topic.Subscribers[clientID]": the topic's map has an entry
AlreadySubscribed(t, c) == tSubs[t][c] # Nil

\* service.Subscribe under topic.mu: attach, read the tail of the ring, spawn the replay
SubscribeAttach(s) ==
    /\ Running
    /\ op[s].kind = "subscribe" /\ op[s].phase = "locked"
    /\ LET t == op[s].topic
           c == sess[s].ID
           new == Len(subs) + 1
       IN IF AlreadySubscribed(t, c)
          THEN /\ op' = [op EXCEPT ![s] = Reply("subscribe", op[s].name, "ALREADY_SUBSCRIBED", Nil, op[s].req)]
               /\ UNCHANGED <<registry, panicked, clients, hShutdown, sess, drain, history>>
          ELSE /\ subs' = Append(subs, [ClientID |-> c, TopicName |-> op[s].name,
                                        MessageChan |-> <<>>, closed |-> FALSE])
               /\ tSubs' = [tSubs EXCEPT ![t][c] = new]
               /\ replay' = IF op[s].lastN > 0
                            THEN Append(replay, GetLastN(tRing[t], op[s].lastN))
                            ELSE Append(replay, <<>>)
               /\ hist' = Append(hist, [enq |-> <<>>, out |-> <<>>, owner |-> s, topic |-> t,
                                        lastN |-> op[s].lastN, published |-> added[t]])
               /\ op' = [op EXCEPT ![s] = Reply("subscribe", op[s].name, "", new, op[s].req)]
               /\ UNCHANGED <<got, rest, instance, lk, config, topics, tName, tRing, msgs, shutdown, stop, fanout, panicked>>
               /\ UNCHANGED <<clients, hShutdown, sess, drain, added, before>>

\* a cleanup that leaves the subscriptions in place
BeginCleanupOnly(c) == [c EXCEPT !.state = "closing", !.todo = {}]

\* the deferred cleanup starts: delete(h.clients, clientID), then range over Subscriptions
BeginCleanup(c) ==
    [c EXCEPT !.state = "closing",
              !.todo = {t \in TopicNames : c.Subscriptions[t] # Nil}]

\* handleUnsubscribe up to the topic lookup of service.Unsubscribe
HandleUnsubscribe(s, req) ==
    /\ CanRead(s)
    /\ op' = [op EXCEPT ![s] =
                IF req.Topic = ""
                THEN Reply("unsubscribe", "", "BAD_REQUEST", Nil, req)
                ELSE IF Lookup(req.Topic) = Nil
                THEN Reply("unsubscribe", req.Topic, "TOPIC_NOT_FOUND", Nil, req)
                ELSE [kind |-> "unsubscribe", phase |-> "locked", name |-> req.Topic,
                      topic |-> Lookup(req.Topic), from |-> "frame", req |-> req]]
    /\ UNCHANGED <<registry, panicked, clients, hShutdown, sess, drain, history>>

\* a caller that takes every Unsubscribe for done
AfterUnsubscribeDone(s, err) ==
    IF op[s].from = "frame" THEN Reply("unsubscribe", op[s].name, "", Nil, op[s].req) ELSE Idle

\* where the caller of service.Unsubscribe goes on: the frame handler writes a reply,
\* the deferred cleanup ignores the result and takes the next topic
AfterUnsubscribe(s, err) ==
    IF op[s].from = "frame" THEN Reply("unsubscribe", op[s].name, err, Nil, op[s].req) ELSE Idle

\* service.Unsubscribe under topic.mu: close the channel, then delete the map entry
UnsubscribeDetach(s) ==
    /\ Running
    /\ op[s].kind = "unsubscribe" /\ op[s].phase = "locked"
    /\ LET t == op[s].topic
           c == sess[s].ID
           i == tSubs[t][c]
       IN IF i = Nil
          THEN /\ op' = [op EXCEPT ![s] = AfterUnsubscribe(s, "NOT_SUBSCRIBED")]
               /\ UNCHANGED <<registry, panicked, clients, hShutdown, sess, drain, history>>
          ELSE IF subs[i].closed
          THEN \* close of a closed channel: topic.mu is released by the deferred Unlock.
               \* In a frame handler the panic unwinds the read loop and the deferred
               \* cleanup runs; in the deferred cleanup it ends the cleanup at once and
               \* only conn.Close() still runs
               /\ sess' = [sess EXCEPT ![s] =
                            IF op[s].from = "frame"
                            THEN [BeginCleanup(sess[s]) EXCEPT !.panic = "close of closed channel: MessageChan"]
                            ELSE [sess[s] EXCEPT !.state = "closed", !.todo = {}, !.connClosed = TRUE,
                                                 !.panic = "close of closed channel: MessageChan"]]
               /\ clients' = IF op[s].from = "frame" THEN [clients EXCEPT ![c] = ""] ELSE clients
               /\ op' = [op EXCEPT ![s] = Idle]
               /\ UNCHANGED <<registry, panicked, hShutdown, drain, history>>
          ELSE /\ subs' = [subs EXCEPT ![i].closed = TRUE]
               /\ tSubs' = [tSubs EXCEPT ![t][c] = Nil]
               /\ op' = [op EXCEPT ![s] = AfterUnsubscribe(s, "")]
               /\ UNCHANGED <<got, rest, instance, lk, config, topics, tName, tRing, msgs, shutdown, stop, fanout, replay, panicked>>
               /\ UNCHANGED <<clients, hShutdown, sess, drain, history>>

\* service.Publish(m) has returned: no call is still working on message m
Returned(m) == \A s \in Sessions : ~(op[s].kind = "publish" /\ op[s].phase # "reply" /\ op[s].msg = m)

\* the checks of handlePublish without the one of message.id
PublishRejectedNoId(req) == req.Topic = "" \/ req.Message.nil

\* the checks of handlePublish: "topic and message are required", "message.id is required"
PublishRejected(req) == req.Topic = "" \/ req.Message.nil \/ req.Message.ID = ""

\* uuid.New().String(): a string no other message carries
UUID(k) == "uuid-" \o ToString(k)

\* service.Publish, "Set message metadata": Topic, Timestamp = time.Now() (the clock is
\* read in the order of the stampings), and a new ID if the message has none
Stamp(message, topicName, now) ==
    [ID |-> IF message.ID = "" THEN UUID(now) ELSE message.ID,
     Topic |-> topicName, Timestamp |-> now]

\* handlePublish up to the topic lookup of service.Publish and the stamping of the message
HandlePublish(s, req) ==
    /\ CanRead(s)
    /\ IF PublishRejected(req)
       THEN /\ op' = [op EXCEPT ![s] = Reply("publish", req.Topic, "BAD_REQUEST", Nil, req)]
            /\ UNCHANGED <<registry, panicked, clients, hShutdown, sess, drain, history>>
       ELSE IF Lookup(req.Topic) = Nil
       THEN /\ op' = [op EXCEPT ![s] = Reply("publish", req.Topic, "TOPIC_NOT_FOUND", Nil, req)]
            /\ UNCHANGED <<registry, panicked, clients, hShutdown, sess, drain, history>>
       ELSE /\ msgs' = Append(msgs, Stamp(req.Message, req.Topic, Len(msgs) + 1))
            /\ before' = Append(before, {m \in DOMAIN msgs : Returned(m)})
            /\ op' = [op EXCEPT ![s] =
                        [kind |-> "publish", phase |-> "add", name |-> req.Topic,
                         topic |-> Lookup(req.Topic), msg |-> Len(msgs) + 1, req |-> req]]
            /\ UNCHANGED <<got, rest, instance, lk, config, topics, tName, tSubs, tRing, subs, shutdown, stop, fanout, replay, panicked>>
            /\ UNCHANGED <<clients, hShutdown, sess, drain, hist, added>>

\* service.Publish: topic.Messages.Add(message), under the ring's own mutex
PublishAdd(s) ==
    /\ Running
    /\ op[s].kind = "publish" /\ op[s].phase = "add"
    /\ tRing' = [tRing EXCEPT ![op[s].topic] = Add(@, op[s].msg)]
    /\ added' = [added EXCEPT ![op[s].topic] = Append(@, op[s].msg)]
    /\ op' = [op EXCEPT ![s].phase = "fanout"]
    /\ UNCHANGED <<got, rest, instance, lk, config, topics, tName, tSubs, subs, msgs, shutdown, stop, fanout, replay, panicked>>
    /\ UNCHANGED <<clients, hShutdown, sess, drain, hist, before>>

\* a fan-out that stops after the first subscriber
SpawnFirst(m, snapshot) ==
    IF snapshot = {} THEN {} ELSE {<<m, CHOOSE i \in snapshot : \A j \in snapshot : i <= j>>}

\* the goroutines Publish spawns for message m and the subscribers it snapshotted
Spawn(m, snapshot) == {<<m, i>> : i \in snapshot}

\* service.Publish: snapshot the subscribers under topic.mu.RLock, spawn one goroutine
\* per subscriber, return nil
PublishFanout(s) ==
    /\ Running
    /\ op[s].kind = "publish" /\ op[s].phase = "fanout"
    /\ fanout' = fanout \cup Spawn(op[s].msg, Attached(op[s].topic))
    /\ op' = [op EXCEPT ![s] = Reply("publish", op[s].name, "", Nil, op[s].req)]
    /\ UNCHANGED <<got, rest, instance, lk, config, topics, tName, tSubs, tRing, subs, msgs, shutdown, stop, replay, panicked>>
    /\ UNCHANGED <<clients, hShutdown, sess, drain, history>>

\* time.Now() for a caller that publishes a message again: later than every stamp
Now == 1 + Len(msgs) + Cardinality({m \in DOMAIN msgs : msgs[m].Timestamp > Len(msgs)})

\* message.Topic = topicName, message.Timestamp = time.Now(), message.ID = ...: the
\* assignments go through the pointer, to the object the caller passed
StampInPlace(ms, m, stamped) == [ms EXCEPT ![m] = stamped]

\* service.Publish(ctx, name, message) called on the Service interface with a message
\* object of the caller's: m is the object, a new one (with no ID) or one that was
\* published before.  The message is stamped in place, added to the ring, and one
\* goroutine per subscriber is spawned
Publish(name, m) ==
    /\ Running
    /\ m \in 1..(Len(msgs) + 1)
    /\ IF Lookup(name) = Nil
       THEN UNCHANGED vars                        \* "topic %s not found"
       ELSE LET t == Lookup(name)
                fresh == m \notin DOMAIN msgs
                stamped == Stamp(IF fresh THEN MessageWith("") ELSE msgs[m], name, Now)
            IN /\ msgs' = IF fresh THEN Append(msgs, stamped) ELSE StampInPlace(msgs, m, stamped)
               /\ before' = IF fresh THEN Append(before, {k \in DOMAIN msgs : Returned(k)}) ELSE before
               /\ tRing' = [tRing EXCEPT ![t] = Add(@, m)]
               /\ added' = [added EXCEPT ![t] = Append(@, m)]
               /\ fanout' = fanout \cup Spawn(m, Attached(t))
               /\ UNCHANGED <<got, rest, instance, lk, config, topics, tName, tSubs, subs, shutdown, stop, replay, panicked>>
               /\ UNCHANGED <<sessionLayer, hist>>

\* the WSResponse handleMessage writes for a reply: the request's request_id, the type
\* (pong, ack or error), topic and status "ok" of an ack, and the code of an error, which
\* is INTERNAL for every registry error other than "topic %s not found"
Response(r) ==
    [Type |-> IF r.kind = "ping" THEN "pong" ELSE IF r.err = "" THEN "ack" ELSE "error",
     RequestID |-> r.req.RequestID,
     Topic |-> IF r.kind # "ping" /\ r.err = "" THEN r.req.Topic ELSE "",
     Status |-> IF r.kind # "ping" /\ r.err = "" THEN "ok" ELSE "",
     Code |-> IF r.err = "" THEN ""
              ELSE IF r.err \in {"BAD_REQUEST", "TOPIC_NOT_FOUND"} THEN r.err
              ELSE "INTERNAL"]

\* handlePing: the response becomes a pong
HandlePing(s, req) ==
    /\ CanRead(s)
    /\ op' = [op EXCEPT ![s] = Reply("ping", "", "", Nil, req)]
    /\ UNCHANGED <<registry, panicked, clients, hShutdown, sess, drain, history>>

\* handleMessage: the switch on req.Type; an unknown type is a BAD_REQUEST
HandleMessage(s, req) ==
    IF req.Type = "subscribe" THEN HandleSubscribe(s, req)
    ELSE IF req.Type = "unsubscribe" THEN HandleUnsubscribe(s, req)
    ELSE IF req.Type = "publish" THEN HandlePublish(s, req)
    ELSE IF req.Type = "ping" THEN HandlePing(s, req)
    ELSE /\ CanRead(s)
         /\ op' = [op EXCEPT ![s] = Reply("unknown", "", "BAD_REQUEST", Nil, req)]
         /\ UNCHANGED <<registry, panicked, clients, hShutdown, sess, drain, history>>

\* a handler that updates the Subscriptions map whatever the registry call returned
StoredAlways(c, r) ==
    IF r.kind = "subscribe" THEN [c.Subscriptions EXCEPT ![r.name] = r.sub]
    ELSE IF r.kind = "unsubscribe" THEN [c.Subscriptions EXCEPT ![r.name] = Nil]
    ELSE c.Subscriptions

\* client.Subscriptions after handleSubscribe or handleUnsubscribe: on an error the
\* handler returns before it touches the map, on success it stores the subscriber or
\* deletes the entry
Stored(c, r) ==
    IF r.err # "" THEN c.Subscriptions
    ELSE IF r.kind = "subscribe" THEN [c.Subscriptions EXCEPT ![r.name] = r.sub]
    ELSE IF r.kind = "unsubscribe" THEN [c.Subscriptions EXCEPT ![r.name] = Nil]
    ELSE c.Subscriptions

\* the rest of a frame handler after the registry call returned: the Subscriptions map is
\* updated on success, the reply is written (a failed write is logged, nothing else), and
\* the read loop selects again
Respond(s) ==
    /\ Running
    /\ op[s].kind # "idle" /\ op[s].phase = "reply"
    /\ LET r == op[s]
           c == [Written(sess[s], "reply") EXCEPT !.Subscriptions = Stored(sess[s], r)]
       IN IF hShutdown \/ sess[s].done
          THEN /\ sess' = [sess EXCEPT ![s] = BeginCleanup(c)]
               /\ clients' = [clients EXCEPT ![sess[s].ID] = ""]
          ELSE /\ sess' = [sess EXCEPT ![s] = c]
               /\ UNCHANGED clients
    /\ op' = [op EXCEPT ![s] = Idle]
    /\ UNCHANGED <<registry, panicked, hShutdown, drain, history>>

\* handleMessage calls client.Conn.WriteJSON(response): the read loop is inside the write
\* until Respond; a panic of the write unwinds the read loop into the deferred cleanup
BeginReply(s) ==
    /\ Running
    /\ op[s].kind # "idle" /\ op[s].phase = "reply"
    /\ "reply" \notin sess[s].writers
    /\ \E o \in Enters(sess[s], "reply") :
        IF o = "enter"
        THEN /\ sess' = [sess EXCEPT ![s].writers = @ \cup {"reply"}]
             /\ UNCHANGED <<clients, op>>
        ELSE /\ sess' = [sess EXCEPT ![s] =
                            [BeginCleanup([sess[s] EXCEPT !.Subscriptions = Stored(sess[s], op[s])])
                                EXCEPT !.panic = "concurrent write to websocket connection"]]
             /\ clients' = [clients EXCEPT ![sess[s].ID] = ""]
             /\ op' = [op EXCEPT ![s] = Idle]
    /\ UNCHANGED <<registry, panicked, hShutdown, drain, history>>

\* messageSender has received a message and calls client.Conn.WriteJSON(response): it is
\* inside the write until DrainPoll; a panic of the write is a panic of its goroutine
BeginEvent(s) ==
    /\ Running
    /\ \E i \in drain[s].snap : subs[i].MessageChan # <<>>
    /\ "event" \notin sess[s].writers
    /\ \E o \in Enters(sess[s], "event") :
        IF o = "enter"
        THEN /\ sess' = [sess EXCEPT ![s].writers = @ \cup {"event"}]
             /\ UNCHANGED panicked
        ELSE /\ panicked' = "concurrent write to websocket connection"
             /\ UNCHANGED sess
    /\ UNCHANGED <<registry, clients, hShutdown, op, drain, history>>

\* the transport of session s breaks: from now on every WriteJSON returns an error (the
\* error of a write is kept by the connection), while ReadJSON goes on waiting
WriteBreaks(s) ==
    /\ Running
    /\ sess[s].state = "open" /\ ~sess[s].connClosed
    /\ sess[s].wire = "ok"
    /\ sess' = [sess EXCEPT ![s].wire = "broken"]
    /\ UNCHANGED <<registry, panicked, clients, hShutdown, op, drain, history>>

\* HandleWebSocketConnection up to the first ReadJSON: the Client is registered under its
\* clientID (replacing any session registered under it), messageSender is started
Connect(s, c) ==
    /\ Running
    /\ sess[s].state = "new"
    /\ LET cl == [sess[s] EXCEPT !.ID = c, !.state = "open"]
       IN IF hShutdown
          THEN /\ sess' = [sess EXCEPT ![s] = BeginCleanup(cl)]
               /\ clients' = [clients EXCEPT ![c] = ""]
          ELSE /\ sess' = [sess EXCEPT ![s] = cl]
               /\ clients' = [clients EXCEPT ![c] = s]
    /\ drain' = [drain EXCEPT ![s].running = TRUE]
    /\ UNCHANGED <<registry, panicked, hShutdown, op, history>>

\* ReadJSON fails (remote close, wire error, or the connection was closed by Shutdown):
\* the read loop returns and the deferred cleanup starts
Disconnect(s) ==
    /\ Running
    /\ sess[s].state = "open"
    /\ op[s] = Idle
    /\ sess' = [sess EXCEPT ![s] = BeginCleanup(sess[s])]
    /\ clients' = [clients EXCEPT ![sess[s].ID] = ""]
    /\ UNCHANGED <<registry, panicked, hShutdown, op, drain, history>>

\* ReadJSON fails on a frame that is not valid JSON (or not a WSRequest): the read loop
\* returns as on any other read error and the deferred cleanup starts
ReadMalformed(s) ==
    /\ Running
    /\ sess[s].state = "open"
    /\ op[s] = Idle
    /\ ~sess[s].connClosed
    /\ sess' = [sess EXCEPT ![s] = BeginCleanup(sess[s])]
    /\ clients' = [clients EXCEPT ![sess[s].ID] = ""]
    /\ UNCHANGED <<registry, panicked, hShutdown, op, drain, history>>

\* deferred cleanup: h.pubsubService.Unsubscribe(ctx, topicName, clientID) for the next
\* topic of the Subscriptions map, up to the topic lookup
CleanupUnsubscribe(s, name) ==
    /\ Running
    /\ sess[s].state = "closing"
    /\ op[s] = Idle
    /\ name \in sess[s].todo
    /\ sess' = [sess EXCEPT ![s].todo = @ \ {name}]
    /\ op' = [op EXCEPT ![s] =
                IF Lookup(name) = Nil
                THEN Idle
                ELSE [kind |-> "unsubscribe", phase |-> "locked", name |-> name,
                      topic |-> Lookup(name), from |-> "cleanup"]]
    /\ UNCHANGED <<registry, panicked, clients, hShutdown, drain, history>>

\* deferred cleanup: close(client.done), which panics if Shutdown closed it before, then
\* the deferred conn.Close()
CleanupDone(s) ==
    /\ Running
    /\ sess[s].state = "closing"
    /\ op[s] = Idle
    /\ sess[s].todo = {}
    /\ sess' = [sess EXCEPT ![s].done = TRUE, ![s].state = "closed", ![s].connClosed = TRUE,
                            ![s].panic = IF sess[s].done THEN "close of closed channel: done" ELSE @]
    /\ UNCHANGED <<registry, panicked, clients, hShutdown, op, drain, history>>

\* WebSocketHandler.Shutdown: close(h.shutdown), then Conn.Close() and close(client.done)
\* for every registered client
Shutdown ==
    /\ Running
    /\ ~hShutdown
    /\ hShutdown' = TRUE
    /\ LET registered == {clients[c] : c \in Clients} \ {""}
       IN IF \E s \in registered : sess[s].done
          THEN /\ panicked' = "close of closed channel: done"
               /\ UNCHANGED sess
          ELSE /\ sess' = [s \in Sessions |->
                             IF s \in registered
                             THEN [sess[s] EXCEPT !.connClosed = TRUE, !.done = TRUE]
                             ELSE sess[s]]
               /\ UNCHANGED panicked
    /\ UNCHANGED <<registry, clients, op, drain, history>>

\* ------------------------------------------------------------- goroutines
\* a select without the default case: it waits for room in the channel
OutcomesBlocking(i) ==
    (IF subs[i].closed THEN {"panic"}
     ELSE IF Len(subs[i].MessageChan) < config.ChannelBufferSize THEN {"sent"} ELSE {})
    \cup (IF shutdown THEN {"shutdown"} ELSE {})

\* what a select { case ch <- msg: ; case <-s.shutdown: ; default: } can do:
\* a send on a closed channel is ready and panics, a ready case is chosen at random
Outcomes(i) ==
    LET send == IF subs[i].closed THEN {"panic"}
                ELSE IF Len(subs[i].MessageChan) < config.ChannelBufferSize THEN {"sent"}
                ELSE {}
        down == IF shutdown THEN {"shutdown"} ELSE {}
    IN IF send \cup down = {} THEN {"dropped"} ELSE send \cup down

\* a channel that hands out the newest message first
EnqueueNewestFirst(i, m) == [subs EXCEPT ![i].MessageChan = <<m>> \o @]

\* ch <- msg on a buffered channel with room: msg goes to the end of the buffer
Enqueue(i, m) == [subs EXCEPT ![i].MessageChan = Append(@, m)]

\* one fan-out goroutine of Publish
FanoutTask(m, i) ==
    /\ Running
    /\ <<m, i>> \in fanout
    /\ fanout' = fanout \ {<<m, i>>}
    /\ \E o \in Outcomes(i) :
        /\ subs' = IF o = "sent" THEN Enqueue(i, m) ELSE subs
        /\ hist' = IF o = "sent"
                   THEN [hist EXCEPT ![i].enq = Append(@, [msg |-> m, src |-> "live"])]
                   ELSE hist
        /\ panicked' = IF o = "panic" THEN "send on closed channel" ELSE panicked
    /\ UNCHANGED <<got, rest, instance, lk, config, topics, tName, tSubs, tRing, msgs, shutdown, stop, replay, sessionLayer, added, before>>

\* one iteration of the replay goroutine of Subscribe
ReplayTask(i) ==
    /\ Running
    /\ replay[i] # <<>>
    /\ LET m == Head(replay[i])
       IN \E o \in Outcomes(i) :
            /\ subs' = IF o = "sent" THEN Enqueue(i, m) ELSE subs
            /\ hist' = IF o = "sent"
                       THEN [hist EXCEPT ![i].enq = Append(@, [msg |-> m, src |-> "replay"])]
                       ELSE hist
            /\ replay' = [replay EXCEPT ![i] = IF o = "shutdown" THEN <<>> ELSE Tail(@)]
            /\ panicked' = IF o = "panic" THEN "send on closed channel" ELSE panicked
    /\ UNCHANGED <<got, rest, instance, lk, config, topics, tName, tSubs, tRing, msgs, shutdown, stop, fanout, sessionLayer, added, before>>

\* messageSender, top of the loop: return on shutdown or done, else copy the subscriptions
DrainSnapshot(s) ==
    /\ Running
    /\ drain[s].running
    /\ drain[s].snap = {}
    /\ drain' = [drain EXCEPT ![s] =
                    IF hShutdown \/ sess[s].done
                    THEN [running |-> FALSE, snap |-> {}]
                    ELSE [running |-> TRUE, snap |-> Held(s)]]
    /\ UNCHANGED <<registry, panicked, clients, hShutdown, sess, op, history>>

\* a receive that yields the newest message of the channel
ReceivedNewest(ch) == ch[Len(ch)]

\* message := <-subscriber.MessageChan: the oldest message of the channel
Received(ch) == Head(ch)

\* messageSender, one subscription of the pass: a non-blocking receive.  A closed and
\* empty channel yields nil, and message.Topic then dereferences nil; a failed write of
\* the event ends messageSender
DrainPoll(s, i) ==
    /\ Running
    /\ i \in drain[s].snap
    /\ IF subs[i].MessageChan # <<>>
       THEN /\ subs' = [subs EXCEPT ![i].MessageChan = Tail(@)]
            /\ drain' = [drain EXCEPT ![s] =
                            IF WriteFails(s)
                            THEN [running |-> FALSE, snap |-> {}]
                            ELSE [running |-> TRUE, snap |-> drain[s].snap \ {i}]]
            /\ sess' = [sess EXCEPT ![s] = Written(sess[s], "event")]
            /\ hist' = IF WriteFails(s) THEN hist
                       ELSE [hist EXCEPT ![i].out = Append(@, Received(subs[i].MessageChan))]
            /\ UNCHANGED panicked
       ELSE IF subs[i].closed
       THEN /\ panicked' = "nil pointer dereference"
            /\ UNCHANGED <<subs, drain, sess, hist>>
       ELSE /\ drain' = [drain EXCEPT ![s].snap = @ \ {i}]
            /\ UNCHANGED <<subs, panicked, sess, hist>>
    /\ UNCHANGED <<got, rest, instance, lk, config, topics, tName, tSubs, tRing, msgs, shutdown, stop, fanout, replay>>
    /\ UNCHANGED <<clients, hShutdown, op, added, before>>

\* ------------------------------------------------- the ring, called directly
\* topic.Messages.Add(msg) on the ring of topic object t, with a new message
RingAdd(t) ==
    /\ t \in DOMAIN tRing
    /\ tRing' = [tRing EXCEPT ![t] = Add(@, Len(added[t]) + 1)]
    /\ added' = [added EXCEPT ![t] = Append(@, Len(added[t]) + 1)]
    /\ UNCHANGED <<got, rest, instance, lk, config, topics, tName, tSubs, subs, msgs, shutdown, stop, fanout, replay, panicked>>
    /\ UNCHANGED <<sessionLayer, hist, before>>

\* topic.Messages.GetLastN(n) on the ring of topic object t
RingGetLastN(t, n) ==
    /\ t \in DOMAIN tRing
    /\ got' = [n |-> n, out |-> GetLastN(tRing[t], n)]
    /\ UNCHANGED <<rest, instance, lk, config, topics, tName, tSubs, tRing, subs, msgs, shutdown, stop, fanout, replay, panicked>>
    /\ UNCHANGED <<sessionLayer, history>>

\* topic.Messages.GetMessages() on the ring of topic object t (n: as many as it holds)
RingGetMessages(t) ==
    /\ t \in DOMAIN tRing
    /\ got' = [call |-> "GetMessages", n |-> tRing[t].count, out |-> GetMessages(tRing[t])]
    /\ UNCHANGED <<rest, instance, lk, config, topics, tName, tSubs, tRing, subs, msgs, shutdown, stop, fanout, replay, panicked>>
    /\ UNCHANGED <<sessionLayer, history>>

\* ------------------------------------------------------------ behaviours
\* subscriber objects allocated or about to be
SubsInUse == Len(subs) + Cardinality({s \in Sessions : op[s].kind = "subscribe" /\ op[s].phase = "locked"})

\* Fan-out.  A small queue (ChannelBufferSize) behind a larger ring.  Session s1 (principal
\* c1) subscribes and publishes, session s2 (principal c2) subscribes with or without a
\* replay; topic "A" is created and deleted over REST; the service may be stopped.
Init == InitWith([RingBufferSize |-> RingBufferSize, ChannelBufferSize |-> ChannelBufferSize])

Next ==
    \/ Len(tSubs) < MaxTopics /\ CreateTopic("A")
    \/ DeleteTopic("A")
    \/ Stop
    \/ Connect("s1", "c1")
    \/ Connect("s2", "c2")
    \/ SubsInUse < MaxSubs /\ HandleSubscribe("s1", SubscribeFrame("A", 0))
    \/ \E n \in {0, 1} : SubsInUse < MaxSubs /\ HandleSubscribe("s2", SubscribeFrame("A", n))
    \/ \E s \in Sessions : SubscribeAttach(s)
    \/ Len(msgs) < MaxMsgs /\ HandlePublish("s1", PublishFrame("A"))
    \/ \E s \in Sessions : PublishAdd(s)
    \/ \E s \in Sessions : PublishFanout(s)
    \/ \E s \in Sessions : Respond(s)
    \/ \E m \in DOMAIN msgs, i \in DOMAIN subs : FanoutTask(m, i)
    \/ \E i \in DOMAIN subs : ReplayTask(i)
    \/ \E s \in Sessions : DrainSnapshot(s)
    \/ \E s \in Sessions, i \in DOMAIN subs : DrainPoll(s, i)

Spec == Init /\ [][Next]_vars

\* no Subscribe call is between its lookup and its return
NoSubscribeRunning == \A s \in Sessions : ~(op[s].kind = "subscribe" /\ op[s].phase # "reply")

\* Replay.  The queue is as large as the ring, as in DefaultConfig, or smaller.  Session
\* s1 publishes, session s2 subscribes once with any lastN; no Publish call runs while a
\* Subscribe call does.
InitReplay ==
    \E b \in {ChannelBufferSize, RingBufferSize} :
        InitWith([RingBufferSize |-> RingBufferSize, ChannelBufferSize |-> b])

NextReplay ==
    \/ Len(tSubs) < MaxTopics /\ CreateTopic("A")
    \/ Stop
    \/ Connect("s1", "c1")
    \/ Connect("s2", "c2")
    \/ \E n \in -1..(RingBufferSize + 1) :
            SubsInUse < MaxSubs /\ NoPublishRunning /\ HandleSubscribe("s2", SubscribeFrame("A", n))
    \/ SubscribeAttach("s2")
    \/ Len(msgs) < ReplayMaxMsgs /\ NoSubscribeRunning /\ HandlePublish("s1", PublishFrame("A"))
    \/ PublishAdd("s1")
    \/ PublishFanout("s1")
    \/ \E s \in Sessions : Respond(s)
    \/ \E m \in DOMAIN msgs, i \in DOMAIN subs : FanoutTask(m, i)
    \/ \E i \in DOMAIN subs : ReplayTask(i)
    \/ DrainSnapshot("s2")
    \/ \E i \in DOMAIN subs : DrainPoll("s2", i)

SpecReplay == InitReplay /\ [][NextReplay]_vars

\* Lifecycle.  Two sessions of the same principal subscribe, unsubscribe and disconnect
\* while the two topics are created, deleted and created again and the WebSocket handler
\* may be shut down.  Publish frames are sent only while their topic is absent.
NextLife ==
    \/ \E name \in TopicNames : Len(tSubs) < LifeMaxTopics /\ CreateTopic(name)
    \/ \E name \in TopicNames : DeleteTopic(name)
    \/ Shutdown
    \/ Connect("s1", "c1")
    \/ Connect("s2", "c1")
    \/ \E s \in Sessions : Disconnect(s)
    \/ \E s \in Sessions, name \in TopicNames : SubsInUse < LifeMaxSubs /\ HandleSubscribe(s, SubscribeFrame(name, 0))
    \/ \E s \in Sessions : SubscribeAttach(s)
    \/ \E s \in Sessions, name \in TopicNames : HandleUnsubscribe(s, UnsubscribeFrame(name))
    \/ \E s \in Sessions : UnsubscribeDetach(s)
    \/ \E s \in Sessions, name \in TopicNames : topics[name] = Nil /\ HandlePublish(s, PublishFrame(name))
    \/ \E s \in Sessions : Respond(s)
    \/ \E s \in Sessions, name \in TopicNames : CleanupUnsubscribe(s, name)
    \/ \E s \in Sessions : CleanupDone(s)

SpecLife == Init /\ [][NextLife]_vars

\* Isolation.  Two topics, created and deleted over REST; s1 publishes to either, s2
\* subscribes to either, with a replay.
NextIso ==
    \/ \E name \in TopicNames : Len(tSubs) < LifeMaxTopics /\ CreateTopic(name)
    \/ \E name \in TopicNames : DeleteTopic(name)
    \/ Connect("s1", "c1")
    \/ Connect("s2", "c2")
    \/ \E name \in TopicNames : SubsInUse < MaxSubs /\ HandleSubscribe("s2", SubscribeFrame(name, 1))
    \/ SubscribeAttach("s2")
    \/ \E name \in TopicNames : Len(msgs) < MaxMsgs /\ HandlePublish("s1", PublishFrame(name))
    \/ PublishAdd("s1")
    \/ PublishFanout("s1")
    \/ \E s \in Sessions : Respond(s)
    \/ \E m \in DOMAIN msgs, i \in DOMAIN subs : FanoutTask(m, i)
    \/ \E i \in DOMAIN subs : ReplayTask(i)
    \/ DrainSnapshot("s2")
    \/ \E i \in DOMAIN subs : DrainPoll("s2", i)

SpecIso == Init /\ [][NextIso]_vars

\* The ring alone.  One topic is created with a ring of any capacity up to RingMaxSize;
\* messages are added to its ring and its tail is read with any n.
InitRing ==
    \E size \in 1..RingMaxSize :
        InitWith([RingBufferSize |-> size, ChannelBufferSize |-> ChannelBufferSize])

NextRing ==
    \/ Len(tSubs) < MaxTopics /\ CreateTopic("A")
    \/ \E t \in DOMAIN tRing : Len(added[t]) < RingMaxAdds /\ RingAdd(t)
    \/ \E t \in DOMAIN tRing, n \in -1..(RingMaxSize + 2) : RingGetLastN(t, n)
    \/ \E t \in DOMAIN tRing : RingGetMessages(t)

SpecRing == InitRing /\ [][NextRing]_vars

\* Concurrent publishers.  Sessions s1 and s2 both publish to topic "A", each call of
\* Publish at its own pace; s2 may subscribe to the topic first.
NextStamp ==
    \/ Len(tSubs) < MaxTopics /\ CreateTopic("A")
    \/ Connect("s1", "c1")
    \/ Connect("s2", "c2")
    \/ Len(subs) = 0 /\ HandleSubscribe("s2", SubscribeFrame("A", 0))
    \/ SubscribeAttach("s2")
    \/ \E s \in Sessions : Len(msgs) < StampMaxMsgs /\ HandlePublish(s, PublishFrame("A"))
    \/ \E s \in Sessions : PublishAdd(s)
    \/ \E s \in Sessions : PublishFanout(s)
    \/ \E s \in Sessions : Respond(s)
    \/ \E m \in DOMAIN msgs, i \in DOMAIN subs : FanoutTask(m, i)

SpecStamp == Init /\ [][NextStamp]_vars

\* Two principals on one topic.  Sessions s1 (principal c1) and s2 (principal c2)
\* subscribe to topic "A" and unsubscribe from it, again and again, while the topic is
\* created, deleted and created again.
NextUnsub ==
    \/ Len(tSubs) < WireMaxTopics /\ CreateTopic("A")
    \/ DeleteTopic("A")
    \/ Connect("s1", "c1")
    \/ Connect("s2", "c2")
    \/ \E s \in Sessions : SubsInUse < UnsubMaxSubs /\ HandleSubscribe(s, SubscribeFrame("A", 0))
    \/ \E s \in Sessions : SubscribeAttach(s)
    \/ \E s \in Sessions : HandleUnsubscribe(s, UnsubscribeFrame("A"))
    \/ \E s \in Sessions : UnsubscribeDetach(s)
    \/ \E s \in Sessions : Respond(s)
    \/ \E s \in Sessions, name \in TopicNames : CleanupUnsubscribe(s, name)
    \/ \E s \in Sessions : CleanupDone(s)

SpecUnsub == Init /\ [][NextUnsub]_vars

\* Start-up.  Nothing is initialised; InitService is called with nil or with any
\* configuration, any number of times, GetService is called at any time, and once the
\* service exists topics are created and deleted.
InitBoot ==
    /\ got = [call |-> "", cfg |-> NilConfig, ret |-> Nil]
    /\ rest = [call |-> "", name |-> "", err |-> "", status |-> ""]
    /\ instance = Nil
    /\ lk = NoLocks
    /\ config = [RingBufferSize |-> 0, ChannelBufferSize |-> 0]
    /\ topics = [t \in TopicNames |-> Nil]
    /\ tName = <<>> /\ tSubs = <<>> /\ tRing = <<>>
    /\ subs = <<>> /\ msgs = <<>>
    /\ shutdown = FALSE
    /\ stop = NotStopped
    /\ fanout = {} /\ replay = <<>>
    /\ panicked = ""
    /\ clients = [c \in Clients |-> ""]
    /\ hShutdown = FALSE
    /\ sess = [s \in Sessions |->
                 [state |-> "new", ID |-> "", Subscriptions |-> NoSubscriptions,
                  done |-> FALSE, connClosed |-> FALSE, wire |-> "ok", writers |-> {}, todo |-> {}, panic |-> ""]]
    /\ op = [s \in Sessions |-> Idle]
    /\ drain = [s \in Sessions |-> [running |-> FALSE, snap |-> {}]]
    /\ hist = <<>> /\ added = <<>> /\ before = <<>>

BootConfigs == {NilConfig} \cup {ConfigWith(r, c) : r \in 1..BootMaxSize, c \in 1..BootMaxSize}

NextBoot ==
    \/ \E cfg \in BootConfigs : InitService(cfg)
    \/ GetService
    \/ \E name \in TopicNames : instance # Nil /\ Len(tName) < BootMaxTopics /\ CreateTopic(name)
    \/ \E name \in TopicNames : instance # Nil /\ DeleteTopic(name)

SpecBoot == InitBoot /\ [][NextBoot]_vars

\* Stopping.  Session s1 publishes to topic "A" and session s2 subscribes to it with or
\* without a replay, so that fan-out and replay tasks are in flight when main calls Stop.
\* Once Stop has been called no further fan-out or replay goroutine is started: the
\* goroutines that run afterwards were started before the call.
\* The select of Stop is taken in the end: it has a timer case, and a timer fires.
NextStop ==
    \/ Len(tSubs) < MaxTopics /\ CreateTopic("A")
    \/ Stop
    \/ StopWait
    \/ StopReturn
    \/ Connect("s1", "c1")
    \/ Connect("s2", "c2")
    \/ \E n \in {0, RingBufferSize} :
            SubsInUse < StopMaxSubs /\ HandleSubscribe("s2", SubscribeFrame("A", n))
    \/ ~shutdown /\ SubscribeAttach("s2")
    \/ Len(msgs) < StopMaxMsgs /\ HandlePublish("s1", PublishFrame("A"))
    \/ PublishAdd("s1")
    \/ ~shutdown /\ PublishFanout("s1")
    \/ \E s \in Sessions : Respond(s)
    \/ \E m \in DOMAIN msgs, i \in DOMAIN subs : FanoutTask(m, i)
    \/ \E i \in DOMAIN subs : ReplayTask(i)

SpecStop == Init /\ [][NextStop]_vars /\ WF_vars(StopReturn)

\* Reports.  The ring holds StatsRingSize messages, fewer than are published.  Topics
\* are created, topic "A" is deleted and created again, session s1 subscribes to topic "A" and unsubscribes,
\* session s2 subscribes to topic "B" and publishes to topic "A".
InitStats == InitWith([RingBufferSize |-> StatsRingSize, ChannelBufferSize |-> ChannelBufferSize])

NextStats ==
    \/ \E name \in TopicNames :
            /\ topics[name] = Nil => Len(tSubs) < StatsMaxTopics
            /\ CreateTopic(name)
    \/ DeleteTopic("A")
    \/ Connect("s1", "c1")
    \/ Connect("s2", "c2")
    \/ SubsInUse < StatsMaxSubs /\ HandleSubscribe("s1", SubscribeFrame("A", 0))
    \/ SubsInUse < StatsMaxSubs /\ HandleSubscribe("s2", SubscribeFrame("B", 0))
    \/ \E s \in Sessions : SubscribeAttach(s)
    \/ HandleUnsubscribe("s1", UnsubscribeFrame("A"))
    \/ UnsubscribeDetach("s1")
    \/ Len(msgs) < StatsMaxMsgs /\ HandlePublish("s2", PublishFrame("A"))
    \/ PublishAdd("s2")
    \/ PublishFanout("s2")
    \/ \E s \in Sessions : Respond(s)
    \/ \E m \in DOMAIN msgs, i \in DOMAIN subs : FanoutTask(m, i)

SpecStats == InitStats /\ [][NextStats]_vars

\* Broken transport.  Session s1 subscribes to topic "A", session s2 publishes to it; the
\* transport of s1 may break, and s1's ReadJSON may fail at any time.  Every step the
\* program takes by itself is taken in the end: the steps of a handler, of the deferred
\* cleanup, of messageSender and of the fan-out goroutines.  Frames, read errors and the
\* breaking of the transport come from outside and may never come.
NextWrite ==
    \/ Len(tSubs) < MaxTopics /\ CreateTopic("A")
    \/ Connect("s1", "c1")
    \/ Connect("s2", "c2")
    \/ WriteBreaks("s1")
    \/ Disconnect("s1")
    \/ SubsInUse < WriteMaxSubs /\ HandleSubscribe("s1", SubscribeFrame("A", 0))
    \/ SubscribeAttach("s1")
    \/ Len(msgs) < WriteMaxMsgs /\ HandlePublish("s2", PublishFrame("A"))
    \/ PublishAdd("s2")
    \/ PublishFanout("s2")
    \/ \E s \in Sessions : Respond(s)
    \/ \E m \in DOMAIN msgs, i \in DOMAIN subs : FanoutTask(m, i)
    \/ DrainSnapshot("s1")
    \/ \E i \in DOMAIN subs : DrainPoll("s1", i)
    \/ \E name \in TopicNames : CleanupUnsubscribe("s1", name)
    \/ UnsubscribeDetach("s1")
    \/ CleanupDone("s1")

FairWrite ==
    /\ \A s \in Sessions : WF_vars(Respond(s))
    /\ WF_vars(SubscribeAttach("s1"))
    /\ WF_vars(PublishAdd("s2") \/ PublishFanout("s2"))
    /\ WF_vars(\E m \in DOMAIN msgs, i \in DOMAIN subs : FanoutTask(m, i))
    /\ WF_vars(DrainSnapshot("s1") \/ \E i \in DOMAIN subs : DrainPoll("s1", i))
    /\ WF_vars(\/ \E name \in TopicNames : CleanupUnsubscribe("s1", name)
               \/ UnsubscribeDetach("s1")
               \/ CleanupDone("s1"))

SpecWrite == Init /\ [][NextWrite]_vars /\ FairWrite

\* Writers.  Session s1 subscribes to topic "A", pings and publishes to it, so that its
\* read loop writes replies while its messageSender writes the events.  A write is
\* entered (BeginReply, BeginEvent) and left (Respond, DrainPoll) in two steps.
NextWriters ==
    \/ Len(tSubs) < MaxTopics /\ CreateTopic("A")
    \/ Connect("s1", "c1")
    \/ SubsInUse < WritersMaxSubs /\ HandleSubscribe("s1", SubscribeFrame("A", 0))
    \/ SubscribeAttach("s1")
    \/ Len(msgs) < WritersMaxMsgs /\ HandlePublish("s1", PublishFrame("A"))
    \/ PublishAdd("s1")
    \/ PublishFanout("s1")
    \/ BeginReply("s1")
    \/ "reply" \in sess["s1"].writers /\ Respond("s1")
    \/ \E m \in DOMAIN msgs, i \in DOMAIN subs : FanoutTask(m, i)
    \/ DrainSnapshot("s1")
    \/ BeginEvent("s1")
    \/ \E i \in DOMAIN subs :
            /\ subs[i].MessageChan # <<>> => "event" \in sess["s1"].writers
            /\ DrainPoll("s1", i)
    \/ Disconnect("s1")
    \/ \E name \in TopicNames : CleanupUnsubscribe("s1", name)
    \/ UnsubscribeDetach("s1")
    \/ CleanupDone("s1")

SpecWriters == Init /\ [][NextWriters]_vars

\* Draining.  Session s1 subscribes to both topics, session s2 publishes to either; the
\* channels hold DrainChannelSize messages.  messageSender of s1 is scheduled again and
\* again, and the handler of s1 finishes what it began.
InitDrain == InitWith([RingBufferSize |-> RingBufferSize, ChannelBufferSize |-> DrainChannelSize])

NextDrain ==
    \/ \E name \in TopicNames : Len(tSubs) < DrainMaxTopics /\ CreateTopic(name)
    \/ Connect("s1", "c1")
    \/ Connect("s2", "c2")
    \/ \E name \in TopicNames :
            SubsInUse < DrainMaxSubs /\ HandleSubscribe("s1", SubscribeFrame(name, 0))
    \/ SubscribeAttach("s1")
    \/ \E name \in TopicNames : Len(msgs) < DrainMaxMsgs /\ HandlePublish("s2", PublishFrame(name))
    \/ PublishAdd("s2")
    \/ PublishFanout("s2")
    \/ \E s \in Sessions : Respond(s)
    \/ \E m \in DOMAIN msgs, i \in DOMAIN subs : FanoutTask(m, i)
    \/ DrainSnapshot("s1")
    \/ \E i \in DOMAIN subs : DrainPoll("s1", i)

SpecDrain ==
    /\ InitDrain /\ [][NextDrain]_vars
    /\ WF_vars(Respond("s1"))
    /\ WF_vars(DrainSnapshot("s1") \/ \E i \in DOMAIN subs : DrainPoll("s1", i))

\* Locking.  The goroutines call the service for either topic, any call at any time,
\* and go through the lock operations of their calls.  A goroutine that can take its
\* next lock operation again and again takes it in the end (sync.RWMutex hands the
\* mutex to a goroutine that has waited long enough).
NextLocks ==
    \/ \E g \in Goroutines, call \in ServiceCalls, t \in 1..LockTopics : Call(g, call, t)
    \/ \E g \in Goroutines : LockStep(g)

SpecLocks == Init /\ [][NextLocks]_vars /\ \A g \in Goroutines : SF_vars(LockStep(g))

\* Shared messages.  A caller of the Service interface publishes message objects to
\* either topic, new ones and ones it has published before; session s2 subscribes to
\* topic "A" with a replay and receives.
NextShare ==
    \/ \E name \in TopicNames : Len(tSubs) < ShareMaxTopics /\ CreateTopic(name)
    \/ \E name \in TopicNames, m \in 1..ShareMaxMsgs :
            /\ \A t \in DOMAIN added : Len(added[t]) < ShareMaxAdds
            /\ Publish(name, m)
    \/ Connect("s2", "c2")
    \/ SubsInUse < ShareMaxSubs /\ HandleSubscribe("s2", SubscribeFrame("A", RingBufferSize))
    \/ SubscribeAttach("s2")
    \/ Respond("s2")
    \/ \E m \in DOMAIN msgs, i \in DOMAIN subs : FanoutTask(m, i)
    \/ \E i \in DOMAIN subs : ReplayTask(i)

SpecShare == Init /\ [][NextShare]_vars

\* complete frames for either topic name
RestFrames ==
    {SubscribeFrame(name, 0) : name \in TopicNames}
    \cup {UnsubscribeFrame(name) : name \in TopicNames}
    \cup {PublishFrame(name) : name \in TopicNames}

\* The REST endpoint.  Topic "A" is created, deleted and created again over REST, topic
\* "B" never exists; session s1 (principal c1) subscribes to, unsubscribes from and
\* publishes to either name.
NextRest ==
    \/ \E name \in {"", "A"} :
            /\ (name # "" /\ topics[name] = Nil) => Len(tSubs) < RestMaxTopics
            /\ EndpointCreateTopic(name)
    \/ \E name \in TopicNames : EndpointDeleteTopic(name)
    \/ Connect("s1", "c1")
    \/ \E req \in RestFrames :
            /\ req.Type = "subscribe" => SubsInUse < RestMaxSubs
            /\ req.Type = "publish" => Len(msgs) < RestMaxMsgs
            /\ HandleMessage("s1", req)
    \/ SubscribeAttach("s1")
    \/ UnsubscribeDetach("s1")
    \/ PublishAdd("s1")
    \/ PublishFanout("s1")
    \/ Respond("s1")
    \/ \E m \in DOMAIN msgs, i \in DOMAIN subs : FanoutTask(m, i)
    \/ \E name \in TopicNames : CleanupUnsubscribe("s1", name)
    \/ CleanupDone("s1")

SpecRest == Init /\ [][NextRest]_vars

\* the frames a client sends with request id rid: every verb, with and without its
\* required members, and a verb the broker does not know
Frames(rid) ==
    {WSRequest(type, topic, NilMessage, 0, rid) :
        type \in {"subscribe", "unsubscribe"}, topic \in {"", "A"}}
    \cup {WSRequest("publish", topic, message, 0, rid) :
        topic \in {"", "A"}, message \in {NilMessage, MessageWith(""), MessageWith("m")}}
    \cup {WSRequest("ping", "", NilMessage, 0, rid), WSRequest("status", "", NilMessage, 0, rid)}

\* the request id each session's client puts into its frames: s1 tags them, s2 does not
RequestIDOf(s) == IF s = "s1" THEN "r1" ELSE ""

\* Frames.  Sessions s1 (principal c1) and s2 (principal c2) send any frame, also frames
\* that are not JSON, while topic "A" is created, deleted and created again.
NextWire ==
    \/ Len(tSubs) < WireMaxTopics /\ CreateTopic("A")
    \/ DeleteTopic("A")
    \/ Connect("s1", "c1")
    \/ Connect("s2", "c2")
    \/ \E s \in Sessions : \E req \in Frames(RequestIDOf(s)) :
            /\ req.Type = "subscribe" => SubsInUse < WireMaxSubs
            /\ req.Type = "publish" => Len(msgs) < WireMaxMsgs
            /\ HandleMessage(s, req)
    \/ \E s \in Sessions : ReadMalformed(s)
    \/ \E s \in Sessions : SubscribeAttach(s)
    \/ \E s \in Sessions : UnsubscribeDetach(s)
    \/ \E s \in Sessions : PublishAdd(s)
    \/ \E s \in Sessions : PublishFanout(s)
    \/ \E s \in Sessions : Respond(s)
    \/ \E m \in DOMAIN msgs, i \in DOMAIN subs : FanoutTask(m, i)
    \/ \E s \in Sessions, name \in TopicNames : CleanupUnsubscribe(s, name)
    \/ \E s \in Sessions : CleanupDone(s)

SpecWire == Init /\ [][NextWire]_vars

\* ------------------------------------------------------------ properties
IsLive(e) == e.src = "live"
IsReplay(e) == e.src = "replay"
MsgsOf(es) == [k \in 1..Len(es) |-> es[k].msg]

\* the messages a subscriber's channel was sent by fan-out goroutines, by replay goroutines
LiveOf(h) == MsgsOf(SelectSeq(h.enq, IsLive))
ReplayOf(h) == MsgsOf(SelectSeq(h.enq, IsReplay))

\* how many times message m was sent to the channel by a fan-out goroutine
LiveCount(h, m) == Cardinality({k \in 1..Len(h.enq) : h.enq[k] = [msg |-> m, src |-> "live"]})

Full(i) == Len(subs[i].MessageChan) >= config.ChannelBufferSize

\* no Publish call is running and no fan-out goroutine is left
Quiet == fanout = {} /\ NoPublishRunning

\* C1: a successful Publish of M spawns a fan-out goroutine for exactly the subscribers
\* attached when it snapshots the topic; a goroutine that finds its subscriber's channel
\* open and not full, with no shutdown signalled, puts M into it; M is never put twice
\* into the same channel by the fan-out.
C1_FanoutOnce ==
    [][ /\ \A s \in Sessions :
            (op[s].kind = "publish" /\ op[s].phase = "fanout" /\ op'[s] # op[s])
                => /\ fanout' = fanout \cup {<<op[s].msg, i>> : i \in Attached(op[s].topic)}
                   /\ \A i \in Attached(op[s].topic) : <<op[s].msg, i>> \notin fanout
                   /\ op'[s].err = ""
        /\ \A p \in fanout :
            (p \notin fanout' /\ ~subs[p[2]].closed /\ ~Full(p[2]) /\ ~shutdown)
                => /\ subs'[p[2]].MessageChan = Append(subs[p[2]].MessageChan, p[1])
                   /\ LiveCount(hist'[p[2]], p[1]) = 1
        /\ \A i \in DOMAIN hist' : \A m \in DOMAIN msgs' : LiveCount(hist'[i], m) <= 1
      ]_vars

\* two subscribers of the topic were attached at the snapshot and both got the message
C1_Witness ==
    \E m \in DOMAIN msgs : \E i, j \in DOMAIN subs :
        /\ i # j
        /\ LiveCount(hist[i], m) = 1
        /\ LiveCount(hist[j], m) = 1

\* C2: if Publish(T, M1) returned before Publish(T, M2) began, no subscriber's channel is
\* sent M2 before M1 by the fan-out.
C2_PublishOrder ==
    \A i \in DOMAIN hist : \A a, b \in 1..Len(hist[i].enq) :
        (a < b /\ IsLive(hist[i].enq[a]) /\ IsLive(hist[i].enq[b]))
            => hist[i].enq[b].msg \notin before[hist[i].enq[a].msg]

\* C3: no subscriber's channel is closed a second time, whatever the interleaving of
\* Unsubscribe, DeleteTopic and session teardown.
C3_ClosedOnce ==
    /\ panicked # "close of closed channel: MessageChan"
    /\ \A s \in Sessions : sess[s].panic # "close of closed channel: MessageChan"

\* C4: every step of a Publish call and of a Subscribe call, and every send of the
\* goroutines they spawn, can be taken at once whatever the fill level of any channel,
\* and a call goes through its steps once, in order, up to its return.
C4_NoWaiting ==
    /\ [](Running =>
            /\ \A s \in Sessions :
                /\ (op[s].kind = "publish" /\ op[s].phase = "add") => ENABLED PublishAdd(s)
                /\ (op[s].kind = "publish" /\ op[s].phase = "fanout") => ENABLED PublishFanout(s)
                /\ (op[s].kind = "subscribe" /\ op[s].phase = "locked") => ENABLED SubscribeAttach(s)
            /\ \A p \in fanout : ENABLED FanoutTask(p[1], p[2])
            /\ \A i \in DOMAIN replay : replay[i] # <<>> => ENABLED ReplayTask(i))
    /\ [][ \A s \in Sessions :
            /\ (op[s].kind = "publish" /\ op[s].phase = "add" /\ op'[s] # op[s])
                    => (op'[s].kind = "publish" /\ op'[s].phase = "fanout")
            /\ (op[s].kind = "publish" /\ op[s].phase = "fanout" /\ op'[s] # op[s])
                    => (op'[s].kind = "publish" /\ op'[s].phase = "reply")
            /\ (op[s].kind = "subscribe" /\ op[s].phase = "locked" /\ op'[s] # op[s])
                    => (op'[s].kind = "subscribe" /\ op'[s].phase = "reply")
            /\ \A i \in DOMAIN replay : replay[i] # <<>> => Len(replay'[i]) < Len(replay[i])
                                                            \/ replay'[i] = replay[i]
          ]_vars

\* a Publish is about to fan out to a subscriber whose channel is full while a Subscribe
\* with lastN > 0 is waiting to attach
C4_Witness ==
    \E i \in DOMAIN subs :
        /\ ~subs[i].closed /\ Full(i)
        /\ op["s1"].kind = "publish" /\ op["s1"].phase = "fanout"
        /\ i \in Attached(op["s1"].topic)
        /\ op["s2"].kind = "subscribe" /\ op["s2"].phase = "locked" /\ op["s2"].lastN > 0

\* C5: a subscriber attached before the first publish and never drained holds, once more
\* messages than its channel's capacity were published and all fan-out is over, exactly
\* the first ChannelBufferSize messages in publish order.
C5_SlowConsumer ==
    \A i \in DOMAIN subs :
        LET pubs == added[hist[i].topic]
        IN ( /\ Quiet /\ ~shutdown /\ ~subs[i].closed
             /\ hist[i].published = <<>>
             /\ subs[i].MessageChan = MsgsOf(hist[i].enq)
             /\ Len(pubs) > config.ChannelBufferSize )
           => subs[i].MessageChan = SubSeq(pubs, 1, config.ChannelBufferSize)

C7_OnePerClient ==
    [][ /\ \A i, j \in DOMAIN subs' :
            (i # j /\ hist'[i].topic = hist'[j].topic /\ subs'[i].ClientID = subs'[j].ClientID)
                => (subs'[i].closed \/ subs'[j].closed)
        /\ \A s \in Sessions :
            (/\ op[s].kind = "subscribe" /\ op[s].phase = "locked" /\ op'[s] # op[s]
             /\ tSubs[op[s].topic][sess[s].ID] # Nil)
                => /\ op'[s] = Reply("subscribe", op[s].name, "ALREADY_SUBSCRIBED", Nil, op[s].req)
                   /\ UNCHANGED <<tSubs, subs, tRing, replay>>
      ]_vars

\* a session is refused the topic another session of its principal is attached to
C7_Witness ==
    /\ sess["s1"].ID = sess["s2"].ID
    /\ op["s2"].kind = "subscribe" /\ op["s2"].phase = "reply"
    /\ op["s2"].err = "ALREADY_SUBSCRIBED"
    /\ \E i \in Attached(topics[op["s2"].name]) : hist[i].owner = "s1" /\ ~subs[i].closed

\* C8: the step of DeleteTopic(T) that removes T closes the channel of every attached
\* subscriber and takes T off ListTopics; a publish, subscribe or unsubscribe frame for T
\* read while T is absent is answered TOPIC_NOT_FOUND and changes nothing in the registry.
C8_Deleted ==
    [][ /\ \A name \in TopicNames :
            (topics[name] # Nil /\ topics'[name] = Nil)
                => /\ \A i \in Attached(topics[name]) : subs'[i].closed
                   /\ \A e \in ListTopics' : e.Name # name
        /\ \A s \in Sessions : \A name \in TopicNames :
            (/\ topics[name] = Nil /\ op[s] = Idle /\ sess[s].state = "open"
             /\ op'[s] # Idle /\ op'[s].name = name)
                => /\ op'[s].kind \in {"publish", "subscribe", "unsubscribe"}
                   /\ op'[s].phase = "reply"
                   /\ op'[s].err = "TOPIC_NOT_FOUND"
                   /\ UNCHANGED registry
      ]_vars

\* a topic with a subscriber was deleted and a publish to it was refused
C8_Witness ==
    \E s \in Sessions, i \in DOMAIN subs :
        /\ subs[i].closed
        /\ topics[subs[i].TopicName] = Nil
        /\ tSubs[hist[i].topic][subs[i].ClientID] = i
        /\ op[s].kind = "publish" /\ op[s].name = subs[i].TopicName
        /\ op[s].err = "TOPIC_NOT_FOUND"

\* C9: once a session has terminated, no subscriber it created is attached to a topic of
\* the map.
C9_TeardownDetaches ==
    \A i \in DOMAIN subs :
        sess[hist[i].owner].state = "closed"
            => \A name \in TopicNames : topics[name] # Nil => i \notin Attached(topics[name])

Min(a, b) == IF a < b THEN a ELSE b

\* the last n elements of a sequence
LastOf(seq, n) == SubSeq(seq, Len(seq) - n + 1, Len(seq))

\* what C10 expects the replay goroutine of subscriber i to have put into its channel
ExpectedReplay(i) ==
    LET k == hist[i].lastN
        pub == hist[i].published
    IN IF k <= 0 THEN <<>> ELSE LastOf(pub, Min(k, Min(Len(pub), config.RingBufferSize)))

\* the replay of subscriber i is over, no shutdown cut it short and no live message has
\* been put into the channel
ReplayDone(i) == replay[i] = <<>> /\ ~shutdown /\ LiveOf(hist[i]) = <<>>

C11_RingShape ==
    \A t \in DOMAIN tRing :
        LET rb == tRing[t]
        IN /\ rb.size = config.RingBufferSize
           /\ 0 <= rb.count /\ rb.count <= rb.size
           /\ rb.head \in 0..(rb.size - 1)
           /\ rb.tail \in 0..(rb.size - 1)
           /\ rb.tail = (rb.head + rb.count) % rb.size

\* more messages than the ring holds were added and the ring has wrapped around
C11_Witness ==
    \E t \in DOMAIN tRing :
        /\ Len(added[t]) > tRing[t].size + 1
        /\ tRing[t].size > 1
        /\ tRing[t].count = tRing[t].size
        /\ tRing[t].head # 0

\* C12: once more messages than the ring's capacity C have been added to a fresh ring, a
\* GetLastN(n) with n >= C returns exactly the last C messages added, in the order added.
C12_TailAfterOverflow ==
    [][ \A t \in DOMAIN tRing :
            (got' # got /\ Len(added[t]) > tRing[t].size /\ got'.n >= tRing[t].size)
                => got'.out = LastOf(added[t], tRing[t].size)
      ]_vars

\* five messages were added to a ring of three and the tail was read with n = 5
C12_Witness ==
    \E t \in DOMAIN tRing :
        /\ tRing[t].size = RingMaxSize
        /\ Len(added[t]) = RingMaxAdds
        /\ got.n > tRing[t].size
        /\ got.out = LastOf(added[t], RingMaxSize)

\* C13: GetLastN(n) returns the last min(n, count) messages added, oldest first, the empty
\* list when n <= 0 or the ring is empty, and leaves the ring as it was.
C13_GetLastN ==
    [][ \A t \in DOMAIN tRing :
            got' # got
                => /\ got'.out = IF got'.n <= 0 \/ tRing[t].count = 0 THEN <<>>
                                 ELSE LastOf(added[t], Min(got'.n, tRing[t].count))
                   /\ tRing' = tRing
      ]_vars

\* fewer messages than the ring holds were asked for, and fewer than were added
C13_Witness ==
    \E t \in DOMAIN tRing :
        /\ got.n > 0 /\ got.n < tRing[t].count
        /\ Len(added[t]) > tRing[t].size
        /\ Len(got.out) = got.n

\* the messages a ring holds, oldest first
Ring(t) == GetLastN(tRing[t], tRing[t].count)

\* the sequence of timestamps is non-decreasing
NonDecreasing(ms) == \A k \in 1..(Len(ms) - 1) : msgs[ms[k]].Timestamp <= msgs[ms[k + 1]].Timestamp

\* C14: every message in a topic's ring or in a subscriber's queue has a non-empty id and
\* the topic it was published to, and the timestamps of the messages of a ring are
\* non-decreasing in ring order, also when publishes to the topic run concurrently.
C14_Stamped ==
    /\ \A t \in DOMAIN tRing : \A k \in 1..Len(Ring(t)) :
            msgs[Ring(t)[k]].ID # "" /\ msgs[Ring(t)[k]].Topic = tName[t]
    /\ \A i \in DOMAIN subs : \A k \in 1..Len(subs[i].MessageChan) :
            LET m == subs[i].MessageChan[k]
            IN msgs[m].ID # "" /\ msgs[m].Topic = subs[i].TopicName
    /\ \A t \in DOMAIN tRing : NonDecreasing(Ring(t))

\* session s takes the step of service.Unsubscribe under the lock of a topic that is
\* still in the registry
UnsubscribesLive(s) ==
    /\ op[s].kind = "unsubscribe" /\ op[s].phase = "locked" /\ op'[s] # op[s]
    /\ topics[op[s].name] = op[s].topic

\* session s takes the step of service.Subscribe under the lock of a topic that is still
\* in the registry, and an earlier subscriber of its client on this topic was closed and
\* removed
SubscribesAgain(s) ==
    /\ op[s].kind = "subscribe" /\ op[s].phase = "locked" /\ op'[s] # op[s]
    /\ topics[op[s].name] = op[s].topic
    /\ tSubs[op[s].topic][sess[s].ID] = Nil
    /\ \E i \in DOMAIN subs : /\ subs[i].ClientID = sess[s].ID /\ hist[i].topic = op[s].topic
                               /\ subs[i].closed

\* C15: Unsubscribe(T, c) on a topic of the registry returns "not subscribed" and changes
\* nothing when c is not attached to T; when c is attached it removes c's subscriber from
\* T and closes its channel, and no other subscriber is touched; a later Subscribe(T, c)
\* succeeds and attaches a new subscriber with an open, empty channel.
C15_Unsubscribe ==
    [][\A s \in Sessions :
        /\ UnsubscribesLive(s) =>
              LET t == op[s].topic
                  c == sess[s].ID
                  i == tSubs[t][c]
              IN IF i = Nil
                 THEN /\ UNCHANGED <<topics, tName, tSubs, tRing, subs, msgs, fanout, replay>>
                      /\ op[s].from = "frame" => op'[s].phase = "reply" /\ op'[s].err = "NOT_SUBSCRIBED"
                 ELSE /\ tSubs' = [tSubs EXCEPT ![t][c] = Nil]
                      /\ ~subs[i].closed
                      /\ subs' = [subs EXCEPT ![i].closed = TRUE]
                      /\ UNCHANGED <<topics, tName, tRing, msgs, fanout, replay>>
                      /\ op[s].from = "frame" => op'[s].phase = "reply" /\ op'[s].err = ""
        /\ SubscribesAgain(s) =>
              LET new == op'[s].sub
              IN /\ op'[s].phase = "reply" /\ op'[s].err = ""
                 /\ new \notin DOMAIN subs /\ new \in DOMAIN subs'
                 /\ ~subs'[new].closed /\ subs'[new].MessageChan = <<>>
                 /\ tSubs'[op[s].topic][sess[s].ID] = new
                 /\ \A j \in DOMAIN subs : subs'[j] = subs[j]]_vars

\* c1 has unsubscribed from topic A while c2 stayed attached with its channel open, has
\* been refused a second unsubscribe, and has subscribed again: it holds a new subscriber
C15_Witness ==
    /\ topics["A"] # Nil
    /\ \E i, j, k \in DOMAIN subs :
          /\ i < k
          /\ subs[i].ClientID = "c1" /\ subs[i].closed /\ hist[i].topic = topics["A"]
          /\ subs[k].ClientID = "c1" /\ ~subs[k].closed /\ tSubs[topics["A"]]["c1"] = k
          /\ subs[j].ClientID = "c2" /\ ~subs[j].closed /\ tSubs[topics["A"]]["c2"] = j
          /\ j < k

\* the registry: the topic map, the topic objects with their subscriber sets and rings,
\* the subscribers with their queues, the messages and the goroutines at work
Registry == <<topics, tName, tSubs, tRing, subs, msgs, fanout, replay, added>>

\* session s reads a subscribe, unsubscribe or publish frame for a name that is not in
\* the topic map
ReadsForAbsent(s) ==
    /\ sess[s].state = "open" /\ op[s] = Idle /\ op'[s] # Idle
    /\ op'[s].kind \in {"subscribe", "unsubscribe", "publish"}
    /\ op'[s].req.Topic \in TopicNames
    /\ ~PublishRejected(op'[s].req) \/ op'[s].kind # "publish"
    /\ topics[op'[s].req.Topic] = Nil

\* the REST endpoint answers a DELETE for a name that is not in the topic map
DeletesAbsent ==
    /\ rest' # rest /\ rest'.call = "DeleteTopic"
    /\ topics[rest'.name] = Nil

\* C16: DeleteTopic, Subscribe, Unsubscribe and Publish on a name that is not in the topic
\* map fail with "topic not found" and leave the registry as it was: the map, every ring,
\* every subscriber set and every queue; a failed Publish appends to no ring.
C16_NotFound ==
    [][/\ \A s \in Sessions :
            ReadsForAbsent(s) => /\ op'[s].phase = "reply" /\ op'[s].err = "TOPIC_NOT_FOUND"
                                 /\ UNCHANGED Registry
       /\ \A s \in Sessions :
            (op[s].kind # "idle" /\ op[s].phase = "reply" /\ op[s].err = "TOPIC_NOT_FOUND" /\ op'[s] # op[s])
                => UNCHANGED Registry /\ sess'[s].Subscriptions = sess[s].Subscriptions
       /\ DeletesAbsent => rest'.err = "TOPIC_NOT_FOUND" /\ UNCHANGED Registry]_vars

\* a DELETE and a publish frame for absent names have been refused while topic A holds a
\* message in its ring and has a subscriber with a message in its queue
C16_Witness ==
    /\ rest.call = "DeleteTopic" /\ rest.err = "TOPIC_NOT_FOUND"
    /\ op["s1"].kind = "publish" /\ op["s1"].phase = "reply" /\ op["s1"].err = "TOPIC_NOT_FOUND"
    /\ topics["A"] # Nil /\ tRing[topics["A"]].count > 0
    /\ \E i \in Attached(topics["A"]) : subs[i].MessageChan # <<>>

\* the REST endpoint answers a POST that names a topic
CreatesTopic == rest' # rest /\ rest'.call = "CreateTopic" /\ rest'.name # ""

\* C17: CreateTopic(name) with name in the topic map fails with "topic already exists"
\* and leaves the topic's subscribers, their queues and its ring as they were; with name
\* absent it registers a new topic that has an empty ring and no subscribers.
C17_CreateTopic ==
    [][CreatesTopic =>
        LET name == rest'.name
        IN IF topics[name] # Nil
           THEN /\ rest'.err = "TOPIC_EXISTS"
                /\ UNCHANGED Registry
           ELSE /\ rest'.err = ""
                /\ topics'[name] \in DOMAIN tRing' \ DOMAIN tRing
                /\ tName'[topics'[name]] = name
                /\ tRing'[topics'[name]].count = 0
                /\ GetLastN(tRing'[topics'[name]], config.RingBufferSize) = <<>>
                /\ \A c \in Clients : tSubs'[topics'[name]][c] = Nil
                /\ \A other \in TopicNames \ {name} : topics'[other] = topics[other]
                /\ \A t \in DOMAIN tRing : tRing'[t] = tRing[t] /\ tSubs'[t] = tSubs[t]
                /\ UNCHANGED <<subs, msgs, fanout, replay>>]_vars

\* topic A was created, deleted with a subscriber and a message in its ring, and created
\* again; the new topic has got a subscriber with a message in its queue and a message
\* in its ring, and a further POST for A has been refused
C17_Witness ==
    /\ rest.call = "CreateTopic" /\ rest.err = "TOPIC_EXISTS"
    /\ Len(tName) = 2 /\ topics["A"] = 2
    /\ tRing[1].count > 0 /\ Attached(1) # {}
    /\ tRing[2].count > 0
    /\ \E i \in Attached(2) : subs[i].MessageChan # <<>>

\* the frame lacks a member its verb requires, or its verb is none of the four
InputError(req) ==
    \/ req.Type \notin {"subscribe", "unsubscribe", "publish", "ping"}
    \/ req.Type \in {"subscribe", "unsubscribe"} /\ req.Topic = ""
    \/ req.Type = "publish" /\ (req.Topic = "" \/ req.Message.nil \/ req.Message.ID = "")

\* session s reads a well-formed frame with a client-input error
ReadsInputError(s) ==
    sess[s].state = "open" /\ op[s] = Idle /\ op'[s] # Idle /\ InputError(op'[s].req)

\* session s writes the reply to a frame with a client-input error
WritesInputError(s) ==
    /\ op[s].kind # "idle" /\ op[s].phase = "reply" /\ op'[s] = Idle
    /\ sess[s].state = "open" /\ InputError(op[s].req)

\* the session goes on as it was: open, its connection open, its subscriptions attached
Continues(s) ==
    /\ sess'[s].state = "open" /\ ~sess'[s].connClosed
    /\ sess'[s].Subscriptions = sess[s].Subscriptions
    /\ UNCHANGED <<tSubs, subs>>

\* C18: a frame with a client-input error (a required member missing, an unknown verb, or
\* a frame that is not JSON) gets an error reply with code BAD_REQUEST and the session
\* continues: its connection stays open and its subscriptions stay attached.
C18_BadRequest ==
    [][\A s \in Sessions :
        /\ ReadsInputError(s) =>
              op'[s].phase = "reply" /\ op'[s].err = "BAD_REQUEST" /\ Continues(s)
        /\ WritesInputError(s) => op[s].err = "BAD_REQUEST" /\ Continues(s)
        /\ ReadMalformed(s) =>
              op'[s].kind # "idle" /\ op'[s].phase = "reply" /\ op'[s].err = "BAD_REQUEST"
              /\ Continues(s)]_vars

\* the frame is a publish without a topic, without a message or without a message id
BadPublish(req) ==
    req.Type = "publish" /\ (req.Topic = "" \/ req.Message.nil \/ req.Message.ID = "")

\* C19: a publish frame with an empty topic, no message or an empty message.id is answered
\* with the error BAD_REQUEST and Publish is not called: no message is stamped, no ring
\* and no subscriber's queue gains a message, no fan-out goroutine is started.
C19_PublishRejected ==
    [][\A s \in Sessions :
        /\ (sess[s].state = "open" /\ op[s] = Idle /\ op'[s] # Idle /\ BadPublish(op'[s].req))
              => /\ op'[s].phase = "reply" /\ op'[s].err = "BAD_REQUEST"
                 /\ UNCHANGED <<msgs, tRing, added, subs, fanout>>
        /\ (op[s].kind = "publish" /\ op[s].phase = "reply" /\ BadPublish(op[s].req) /\ op'[s] # op[s])
              => /\ op'[s] = Idle
                 /\ UNCHANGED <<msgs, tRing, added, subs, fanout>>]_vars

\* a publish frame without a message id, for an existing topic that has a subscriber, is
\* about to be answered
C19_Witness ==
    \E s \in Sessions :
        /\ op[s].kind = "publish" /\ op[s].phase = "reply" /\ op[s].err = "BAD_REQUEST"
        /\ op[s].req.Topic = "A" /\ ~op[s].req.Message.nil /\ op[s].req.Message.ID = ""
        /\ topics["A"] # Nil /\ Attached(topics["A"]) # {}
        /\ msgs = <<>>

\* the request a session is serving came in a frame (it is not an Unsubscribe call of
\* the deferred cleanup)
OfFrame(r) == r.kind # "idle" /\ ~(r.kind = "unsubscribe" /\ r.phase = "locked" /\ r.from = "cleanup")

\* the reply is the one the claim describes for the request it answers
Answers(w, r) ==
    /\ w.RequestID = r.req.RequestID
    /\ w.Type \in {"ack", "error", "pong"}
    /\ r.req.Type = "ping" => w.Type = "pong"
    /\ r.req.Type \notin {"subscribe", "unsubscribe", "publish", "ping"}
          => w.Type = "error" /\ w.Code = "BAD_REQUEST"
    /\ (r.req.Type \in {"subscribe", "unsubscribe", "publish"} /\ r.err = "")
          => w.Type = "ack" /\ w.Status = "ok" /\ w.Topic = r.req.Topic

\* C20: every request frame a session reads is answered by exactly one reply of type ack,
\* error or pong that echoes the request_id: the session is done with the request only
\* by writing its reply; ping yields pong, an unknown type yields error BAD_REQUEST, a
\* successful subscribe, unsubscribe or publish yields ack with status ok and the topic.
C20_OneReply ==
    [][\A s \in Sessions :
        (OfFrame(op[s]) /\ (op'[s] = Idle \/ ~OfFrame(op'[s])))
            => op[s].phase = "reply" /\ Answers(Response(op[s]), op[s])]_vars

\* C21: GetService called before any InitService panics and returns no service; after
\* it, it returns the instance.  InitService takes effect once: a later call, with any
\* configuration, returns the instance the first call created and leaves that
\* instance's configuration and topic map as they are.
TakesEffect ==
    /\ instance' # Nil /\ got'.ret = instance'
    /\ config' = (IF got'.cfg.nil THEN DefaultConfig
                   ELSE [RingBufferSize |-> got'.cfg.RingBufferSize,
                         ChannelBufferSize |-> got'.cfg.ChannelBufferSize])
    /\ \A t \in TopicNames : topics'[t] = Nil
C21_Singleton ==
    [][/\ GetService =>
            IF instance = Nil
            THEN panicked' # "" /\ got' = got /\ instance' = Nil
            ELSE panicked' = "" /\ got'.ret = instance /\ instance' = instance
       /\ \A cfg \in BootConfigs :
            InitService(cfg) =>
                IF instance = Nil
                THEN TakesEffect
                ELSE /\ got'.ret = instance
                     /\ UNCHANGED <<instance, lk, config, topics, tName, tSubs, tRing>>]_vars

\* a second InitService with another configuration was answered while topic A exists
C21_Witness ==
    /\ got.call = "InitService" /\ ~got.cfg.nil
    /\ got.cfg.RingBufferSize # config.RingBufferSize
    /\ got.ret = instance
    /\ topics["A"] # Nil

\* C22: Stop signals shutdown and always returns: once called it returns, at the latest
\* when the timer of the graceful-shutdown timeout fires, whether or not fan-out or
\* replay tasks are still in flight.
C22_StopReturns ==
    /\ [](stop.pc # "idle" => shutdown)
    /\ (stop.pc = "select") ~> (stop.pc = "returned")

\* Stop has returned while a fan-out task and a replay task are still in flight
C22_Witness ==
    /\ stop.pc = "returned"
    /\ fanout # {}
    /\ \E i \in DOMAIN replay : replay[i] # <<>>

\* no call of the service is running and no fan-out goroutine is left
Quiescent == fanout = {} /\ \A s \in Sessions : op[s] = Idle

\* the names ListTopics returns
Listed == {r.Name : r \in ListTopics}

\* the subscribers created for topic object t whose queue is open
OpenSubscribers(t) == {i \in DOMAIN subs : hist[i].topic = t /\ ~subs[i].closed}

\* C23: at any quiescent point ListTopics returns exactly the topics created and not yet
\* deleted (a successful create adds its name to the list, a successful delete removes
\* it, nothing else changes the list), each with the number of subscribers attached to
\* it; GetStats reports for each topic messages = the ring's count = min(successful
\* publishes to it, the ring's capacity); GetHealth reports the number of live topics and
\* the sum of the per-topic subscriber counts.
C23_Reports ==
    /\ [](Quiescent =>
            /\ \A r \in ListTopics :
                    r.Subscribers = Cardinality(OpenSubscribers(topics[r.Name]))
            /\ DOMAIN GetStats = Listed
            /\ \A name \in Listed :
                    LET t == topics[name]
                    IN /\ GetStats[name].Messages = Len(GetLastN(tRing[t], config.RingBufferSize))
                       /\ GetStats[name].Messages = Min(Len(added[t]), config.RingBufferSize)
                       /\ GetStats[name].Subscribers = Cardinality(OpenSubscribers(t))
            /\ GetHealth.Topics = Cardinality(Listed)
            /\ GetHealth.Subscribers =
                    Cardinality({i \in DOMAIN subs :
                                    ~subs[i].closed /\ topics[tName[hist[i].topic]] = hist[i].topic}))
    /\ [][/\ \A name \in TopicNames :
                /\ (CreateTopic(name) /\ topics[name] = Nil) => Listed' = Listed \cup {name}
                /\ (DeleteTopic(name) /\ topics[name] # Nil) => Listed' = Listed \ {name}
          /\ Listed' # Listed =>
                \E name \in TopicNames :
                    \/ CreateTopic(name) /\ topics[name] = Nil
                    \/ DeleteTopic(name) /\ topics[name] # Nil]_vars

\* a quiescent point: topic A, created again after it was deleted with a subscriber, has
\* had two publishes and reports one message and no subscriber, topic B reports one
\* subscriber
C23_Witness ==
    /\ Quiescent
    /\ Listed = TopicNames /\ Len(tName) = 3
    /\ Len(added[topics["A"]]) = 2 /\ GetStats["A"].Messages = 1
    /\ GetStats["A"].Subscribers = 0 /\ GetStats["B"].Subscribers = 1
    /\ GetHealth.Topics = 2 /\ GetHealth.Subscribers = 1
    /\ \E i \in DOMAIN subs : subs[i].closed /\ tName[hist[i].topic] = "A" /\ tSubs[hist[i].topic][subs[i].ClientID] = i

\* C24: no fan-out goroutine of Publish and no replay goroutine of Subscribe sends on a
\* channel that Unsubscribe or DeleteTopic has closed, whatever the interleaving.
C24_NoSendOnClosed == panicked # "send on closed channel"

\* C25: when messageSender polls a subscription of its session whose channel is closed
\* and empty, it takes that as the end of the stream: nothing panics, and the subscriber
\* is no longer in the session's Subscriptions map.
C25_EndOfStream ==
    [][\A s \in Sessions, i \in DOMAIN subs :
            (DrainPoll(s, i) /\ subs[i].closed /\ subs[i].MessageChan = <<>>)
                => /\ panicked' = ""
                   /\ \A name \in TopicNames : sess'[s].Subscriptions[name] # i]_vars

\* C26: no subscriber's channel receives the same published message more than once: a
\* message the replay has put into the channel is not also put into it by the fan-out of
\* the Publish that produced it, whatever the interleaving of Publish and Subscribe.
C26_NoDuplicate ==
    \A i \in DOMAIN hist : \A a, b \in 1..Len(hist[i].enq) :
        a # b => hist[i].enq[a].msg # hist[i].enq[b].msg

\* topic object t has been removed from the topic map
Deleted(t) == topics[tName[t]] # t

\* C27: once DeleteTopic has removed a topic object from the map, no subscriber is
\* attached to that object with an open channel, no message is added to its ring and no
\* fan-out goroutine is started from it, whatever the interleaving with Subscribe and
\* Publish.
C27_DeletedIsTerminal ==
    /\ [](\A t \in DOMAIN tName : Deleted(t) => \A i \in Attached(t) : subs[i].closed)
    /\ [][\A t \in DOMAIN tName :
            Deleted(t) =>
                /\ tRing'[t] = tRing[t]
                /\ \A s \in Sessions :
                        (PublishFanout(s) /\ op[s].topic = t) => fanout' = fanout]_vars

\* C28: whatever the interleaving of WebSocketHandler.Shutdown with a session's own
\* termination, the session's done channel is closed once: neither Shutdown nor the
\* deferred cleanup closes it a second time.
C28_DoneClosedOnce ==
    /\ panicked # "close of closed channel: done"
    /\ \A s \in Sessions : sess[s].panic # "close of closed channel: done"

\* C29: once a write to a session's transport has failed, in messageSender or when a
\* reply is written, the session is terminated and every subscriber it created is in the
\* end detached from its topic, without the client sending anything more.
C29_WriteFailureTerminates ==
    \A s \in Sessions :
        (sess[s].wire = "failed")
            ~> (/\ sess[s].state = "closed"
                /\ \A i \in DOMAIN subs :
                        hist[i].owner = s => \A t \in DOMAIN tSubs : i \notin Attached(t))

\* C30: an Unsubscribe made for a session, by an unsubscribe frame or by its deferred
\* cleanup, never closes or detaches a subscriber that is in the Subscriptions map of a
\* different session that is open, be it a session of the same principal, and be it
\* after the topic was deleted and created again under its name.
C30_OwnSubscriberOnly ==
    [][\A s \in Sessions, i \in DOMAIN subs :
            (UnsubscribeDetach(s) /\ ~subs[i].closed /\ subs'[i].closed)
                => \A o \in Sessions \ {s} : ~(sess[o].state = "open" /\ i \in Held(o))]_vars

\* C31: at most one task is inside a write to a session's transport at any instant: the
\* reply write of the read loop and the event write of the session's messageSender never
\* overlap (and the write never finds the other task inside).
C31_OneWriter ==
    /\ \A s \in Sessions : Cardinality(sess[s].writers) <= 1
    /\ panicked # "concurrent write to websocket connection"
    /\ \A s \in Sessions : sess[s].panic # "concurrent write to websocket connection"

\* at least k messages have been put into the channel of subscriber i, have been written
\* from it
PutInto(i, k) == IF i \in DOMAIN hist THEN Len(hist[i].enq) >= k ELSE FALSE
WrittenFrom(i, k) == IF i \in DOMAIN hist THEN Len(hist[i].out) >= k ELSE FALSE

\* C32: messageSender writes the messages of each subscriber channel in the order they
\* were put into it; a pass takes at most one message from a subscription and then
\* leaves it for the rest of the pass; and while the session is open and subscribed,
\* every message put into one of its channels is written in the end, however many
\* messages its other channels hold.
C32_DrainFair ==
    /\ [](\A i \in DOMAIN hist :
            /\ Len(hist[i].out) <= Len(hist[i].enq)
            /\ hist[i].out = SubSeq(MsgsOf(hist[i].enq), 1, Len(hist[i].out)))
    /\ [][\A s \in Sessions, i \in DOMAIN subs :
            DrainPoll(s, i) => /\ Len(subs'[i].MessageChan) >= Len(subs[i].MessageChan) - 1
                               /\ i \notin drain'[s].snap
                               /\ \A j \in DOMAIN subs \ {i} : subs'[j] = subs[j]]_vars
    /\ \A i \in 1..DrainMaxSubs, k \in 1..DrainMaxMsgs :
            PutInto(i, k) ~> WrittenFrom(i, k)

\* both channels of the session held messages at once, one of them two, and all three
\* have been written
C32_Witness ==
    /\ Len(hist) = 2
    /\ Len(hist[1].out) + Len(hist[2].out) = 3
    /\ hist[1].out # <<>> /\ hist[2].out # <<>>
    /\ \E i \in {1, 2} : Len(hist[i].out) = 2 /\ hist[i].out[1] # hist[i].out[2]
    /\ \A i \in {1, 2} : subs[i].MessageChan = <<>>

\* the mutexes goroutine g holds, the mutex it is about to acquire (or none)
HeldBy(g) == {m \in Mutexes : lk.mu[m].w = g \/ g \in lk.mu[m].r}
Acquiring(g) ==
    IF lk.pc[g].op = "idle" THEN {}
    ELSE LET o == LockOps(lk.pc[g].op, lk.pc[g].t)[lk.pc[g].at]
         IN IF o[1] \in {"Lock", "RLock"} THEN {o[2]} ELSE {}

\* the lock order: the service's mutex, a topic's mutex, a ring's mutex
Rank(m) == CASE m[1] = "service" -> 1 [] m[1] = "topic" -> 2 [] m[1] = "ring" -> 3

\* C33: the calls of the service respect the lock order service before topic before
\* ring (no goroutine acquires a mutex while it holds one of the same or a later rank, so
\* none acquires s.mu while holding a topic's mutex), a mutex has one writer or readers
\* only, and every call that has started returns in the end.
C33_LockOrder ==
    /\ [](\A g \in Goroutines : \A a \in Acquiring(g), h \in HeldBy(g) : Rank(h) < Rank(a))
    /\ [](\A m \in Mutexes : lk.mu[m].w # "" => lk.mu[m].r = {})
    /\ \A g \in Goroutines : (lk.pc[g].op # "idle") ~> (lk.pc[g].op = "idle")

\* DeleteTopic holds s.mu and waits for the mutex of topic 1 while a Subscribe holds it
\* and reads the ring
C33_Witness ==
    /\ lk.pc["g1"].op = "DeleteTopic" /\ lk.pc["g1"].waiting /\ lk.mu[ServiceMu].w = "g1"
    /\ lk.pc["g2"].op = "Subscribe" /\ lk.mu[TopicMu(1)].w = "g2" /\ "g2" \in lk.mu[RingMu(1)].r

\* C34: when Stop returns through its done channel, before the timer of
\* GracefulShutdownTimeout has fired, no fan-out goroutine of Publish and no replay
\* goroutine of Subscribe that was started before Stop was called is still running
\* (no goroutine is started once Stop has been called, so every goroutine that runs
\* when Stop returns was started before the call).
C34_StopWaitsForTasks ==
    stop.pc = "returned" /\ stop.how = "graceful" =>
        /\ fanout = {}
        /\ \A i \in DOMAIN replay : replay[i] = <<>>

\* C35: the ring of a topic is mutated under the topic's mutex held for writing: the
\* goroutine inside RingBuffer.Add (the only holder of the ring's mutex for writing)
\* holds topic.mu for writing, as do the goroutines that change topic.Subscribers
\* (Subscribe and Unsubscribe past their topic.mu.Lock).
C35_MutatedUnderTopicLock ==
    \A g \in Goroutines, t \in 1..LockTopics :
        /\ lk.mu[RingMu(t)].w = g => lk.mu[TopicMu(t)].w = g
        /\ lk.pc[g].op \in {"Subscribe", "Unsubscribe"} /\ lk.pc[g].t = t /\ lk.pc[g].at > 3
              => lk.mu[TopicMu(t)].w = g

\* the subscriber service.Subscribe returned to the handler of session s: the newest one
\* created by a frame of s
HandleOf(s) ==
    LET mine == {i \in DOMAIN hist : hist[i].owner = s}
    IN IF mine = {} THEN Nil ELSE CHOOSE i \in mine : \A j \in mine : j <= i

\* the handler of session s has finished a subscribe or unsubscribe frame and written
\* its reply
AnswersFrame(s) ==
    /\ op[s].kind \in {"subscribe", "unsubscribe"} /\ op[s].phase = "reply"
    /\ op'[s] = Idle

\* C36: a subscribe frame that succeeds stores the subscriber service.Subscribe returned
\* under the topic in client.Subscriptions and is answered by an ack; a subscribe or
\* unsubscribe frame that fails (no topic, topic not found, already subscribed, not
\* subscribed) is answered by an error and leaves client.Subscriptions as it was; an
\* unsubscribe frame that succeeds deletes the entry and is answered by an ack.
C36_FrameEffects ==
    [][\A s \in Sessions : AnswersFrame(s) =>
            LET r == op[s]
                old == sess[s].Subscriptions
                new == sess'[s].Subscriptions
            IN IF r.err = ""
               THEN /\ Response(r).Type = "ack" /\ Response(r).Topic = r.name
                    /\ r.kind = "subscribe" =>
                          /\ new = [old EXCEPT ![r.name] = HandleOf(s)]
                          /\ subs[HandleOf(s)].ClientID = sess[s].ID
                          /\ subs[HandleOf(s)].TopicName = r.name
                    /\ r.kind = "unsubscribe" => new = [old EXCEPT ![r.name] = Nil]
               ELSE /\ r.err \in {"BAD_REQUEST", "TOPIC_NOT_FOUND", "ALREADY_SUBSCRIBED", "NOT_SUBSCRIBED"}
                    /\ Response(r).Type = "error"
                    /\ new = old]_vars

\* session s1 holds its subscriber for topic "A" and its second subscribe frame has
\* failed, session s2 has subscribed and unsubscribed and holds nothing
C36_Witness ==
    /\ sess["s1"].Subscriptions["A"] = 1
    /\ op["s1"].kind = "subscribe" /\ op["s1"].phase = "reply" /\ op["s1"].err = "ALREADY_SUBSCRIBED"
    /\ Len(hist) = 2 /\ hist[2].owner = "s2" /\ subs[2].closed
    /\ sess["s2"].Subscriptions["A"] = Nil /\ sess["s2"].state = "open" /\ op["s2"] = Idle

\* C37: a session is registered in h.clients from its creation until its own
\* termination: as long as its read loop runs, the entry under its clientID is the session
\* itself, also when another session of the same principal connects or terminates.
C37_InDirectory ==
    \A s \in Sessions : sess[s].state = "open" => clients[sess[s].ID] = s

\* the message objects a ring or a subscriber's channel has been given
Shared == {m \in DOMAIN msgs : (\E t \in DOMAIN added : \E k \in DOMAIN added[t] : added[t][k] = m)
                                \/ (\E i \in DOMAIN hist : \E k \in DOMAIN hist[i].enq : hist[i].enq[k].msg = m)}

\* C38: once a message has been stamped and added to a ring or sent to a channel, its
\* ID, Topic and Timestamp never change, whatever is called afterwards (a Publish of the
\* same message object to another topic included).
C38_Immutable ==
    [][\A m \in Shared : msgs'[m] = msgs[m]]_vars

RECURSIVE IsSubsequence(_, _)
\* a is b with some elements left out, the others in the order of b
IsSubsequence(a, b) ==
    IF a = <<>> THEN TRUE
    ELSE IF b = <<>> THEN FALSE
    ELSE IF Head(a) = Head(b) THEN IsSubsequence(Tail(a), Tail(b))
    ELSE IsSubsequence(a, Tail(b))

\* the replay goroutine of subscriber i gives up messages without sending them
Skips(i) == replay[i] # <<>> /\ replay'[i] # replay[i] /\ hist'[i].enq = hist[i].enq

\* nothing has been received from the channel of subscriber i
Undrained(i) == Len(subs[i].MessageChan) = Len(hist[i].enq)

\* the replay sends the messages read at attach time in their order, none twice, and
\* leaves the channel of a subscriber that is not drained with the oldest of them
ReplayKeepsOrder ==
    /\ [](\A i \in DOMAIN subs : IsSubsequence(ReplayOf(hist[i]), ExpectedReplay(i)))
    /\ [](\A i \in DOMAIN subs : ReplayDone(i) /\ Undrained(i) =>
              subs[i].MessageChan =
                  SubSeq(ExpectedReplay(i), 1, Min(config.ChannelBufferSize, Len(ExpectedReplay(i)))))

\* C39 as stated: the messages the replay goroutine sends to the new channel are the
\* messages read from the ring at attach time with some left out, in their order and
\* none twice; a message is left out only when the channel is full at that moment (an
\* undrained channel ends up with the oldest ChannelBufferSize of them).
C39_SkipsOnlyWhenFull ==
    /\ ReplayKeepsOrder
    /\ [][\A i \in DOMAIN subs :
              Skips(i) => Len(subs[i].MessageChan) = config.ChannelBufferSize]_vars

\* C39, amended: the same, but a message is left out when the channel is full at that
\* moment or when the service has been stopped, which ends the replay.
C39_SkipsWhenFullOrStopped ==
    /\ ReplayKeepsOrder
    /\ [][\A i \in DOMAIN subs :
              Skips(i) => \/ Len(subs[i].MessageChan) = config.ChannelBufferSize /\ replay'[i] = Tail(replay[i])
                          \/ shutdown /\ replay'[i] = <<>>]_vars

\* a subscriber asked for more messages than its channel holds, was not drained, and its
\* replay has ended with the oldest of them in the channel
C39_Witness ==
    \E i \in DOMAIN subs :
        /\ ReplayDone(i) /\ Undrained(i)
        /\ Len(ExpectedReplay(i)) > config.ChannelBufferSize
        /\ subs[i].MessageChan = SubSeq(ExpectedReplay(i), 1, config.ChannelBufferSize)

\* the last call on a ring was GetMessages
GotMessages == "call" \in DOMAIN got /\ got.call = "GetMessages"

\* C40: after any sequence of Adds, GetMessages returns the count messages the ring
\* holds, oldest first: the last min(k, size) of the k messages added; GetLastN(n)
\* returns the same list for every n >= count.
C40_GetMessages ==
    [][ \A t \in DOMAIN tRing :
            (got' # got /\ GotMessages')
                => /\ Len(got'.out) = tRing[t].count
                   /\ got'.out = LastOf(added[t], Min(Len(added[t]), tRing[t].size))
                   /\ \A n \in tRing[t].count..(RingMaxAdds + 1) : GetLastN(tRing[t], n) = got'.out
                   /\ tRing' = tRing
      ]_vars

\* more messages than the ring holds were added, the ring has wrapped around, and
\* GetMessages has returned the newest size of them
C40_Witness ==
    \E t \in DOMAIN tRing :
        /\ GotMessages
        /\ tRing[t].size > 1 /\ tRing[t].head # 0
        /\ Len(added[t]) > tRing[t].size
        /\ got.out = LastOf(added[t], tRing[t].size)

====
